---- MODULE Spec2Model ----
(***************************************************************************)
(* Account identity and credential lifecycle of forge's user service       *)
(* (UserServiceImpl): login, registration, password reset, verification    *)
(* codes, binding and unbinding of contact methods.                        *)
(*                                                                         *)
(* Requests run concurrently.  A request is a process whose steps are the  *)
(* accesses of the handler to the two shared stores, the account           *)
(* repository (userRepo) and the verification code cache (Redis); the      *)
(* local computation between two accesses belongs to the step of the later *)
(* access.                                                                 *)
(***************************************************************************)
EXTENDS Integers, Sequences, FiniteSets, TLC

\* ------------------------------------------------------------------ bounds
NProcs == 2          \* requests in flight at the same time
MaxRequests == 2     \* requests started in one behaviour
TickStep == 6        \* minutes that pass in one step of the clock
MaxIPs == 2          \* addresses a host resolves to

Procs == 1..NProcs

\* --------------------------------------------------------------- constants
Expiration == 10     \* minutes a stored code lives

AccountTypePhone == "phone"
AccountTypeEmail == "email"
PurposeRegister == "register"
PurposeResetPassword == "reset_password"
PurposeChangeAccount == "change_account"

ErrNil == "nil"
ErrUserNotFound == "user not found"
ErrUserAlreadyExists == "user already exists"
ErrInvalidParams == "invalid params"
ErrPasswordMismatch == "password mismatch"
ErrCredentialsIncorrect == "credentials incorrect"
ErrUnsupportedAccountType == "unsupported account type"
ErrInternalError == "internal error"
ErrPermissionDenied == "permission denied"
ErrVerificationCodeIncorrect == "verification code incorrect"
ErrAccountAlreadyInUse == "account already in use"
ErrPasswordRequired == "password required"
ErrCannotUnbindOnlyContact == "cannot unbind only contact"
\* the error the repository returns for a write that breaks uniqueness
ErrDuplicateKey == "duplicate key"
\* any other failure of the repository
ErrDatabase == "database error"
ErrPasswordTooShort == "password too short"
ErrPasswordTooLong == "password too long"
ErrPasswordTooWeak == "password too weak"

\* ------------------------------------------------------------ input values
\* identifiers a request can carry; the service never checks that the form
\* of an identifier fits its account type
Accounts == {"a@b.com", "13800138000"}
\* the (account, accountType) pairs of the requests: each identifier under
\* its own type, one identifier under the other type, an unsupported type,
\* an empty type and an empty account
Targets ==
    {<<"a@b.com", AccountTypeEmail>>, <<"13800138000", AccountTypePhone>>,
     <<"a@b.com", AccountTypePhone>>, <<"a@b.com", "wechat">>,
     <<"a@b.com", "">>, <<"", AccountTypeEmail>>}
PurposeInputs == {PurposeRegister, PurposeResetPassword, PurposeChangeAccount, "login"}
\* "%06d" of a number below 1000000
Codes == {"123456", "000042"}
CodeInputs == Codes \cup {""}
StrongPasswords == {"Abcdef12!", "Zyxwvu98?"}
PasswordInputs == StrongPasswords \cup {"", "abc"}
UserNameInputs == {"", "forge"}

UserStatusActive == "active"
UserStatusDisabled == "disabled"

\* ------------------------------------------------------------ secret hasher
HashPrefix == "$2a$"

\* util.HashPassword: the digest of a plaintext
HashPassword(plain) == HashPrefix \o plain

\* util.ComparePassword: the outcomes (match, failed) for a digest and a
\* plaintext.  A well-formed digest is compared; a digest that is not one
\* (the empty password of an account without password) makes the hasher
\* either report a mismatch or fail.
ComparePassword(digest, plain) ==
    IF digest = ""
    THEN {[match |-> FALSE, failed |-> FALSE], [match |-> FALSE, failed |-> TRUE]}
    ELSE {[match |-> (digest = HashPassword(plain)), failed |-> FALSE]}

\* thresholds of the password policy
MinPasswordLen == 8
MaxPasswordLen == 32
\* the passwords among the inputs that have enough character classes
DiversePasswords == StrongPasswords

\* util.ValidatePasswordStrength
ValidatePasswordStrength(plain) ==
    IF Len(plain) < MinPasswordLen THEN ErrPasswordTooShort
    ELSE IF Len(plain) > MaxPasswordLen THEN ErrPasswordTooLong
    ELSE IF plain \notin DiversePasswords THEN ErrPasswordTooWeak
    ELSE ErrNil

\* ------------------------------------------------------------------ entity
\* entity.User; UserID 0 stands for "no user" (a nil pointer)
\* a URL is the sequence of its tokens: a token is one character of the URL
\* syntax, an escape, or a run of letters or of digits; the empty string
NoURL == <<>>

NoUser ==
    [UserID |-> 0, UserName |-> "", Password |-> "", Phone |-> "", Email |-> "",
     PhoneVerified |-> FALSE, EmailVerified |-> FALSE,
     Status |-> UserStatusActive, Avatar |-> NoURL]

\* --------------------------------------------------------------- variables
VARIABLES
    users,      \* the account repository: a set of entity.User
    cache,      \* the verification code store: identifier -> entry
    procs,      \* the requests: process -> its handler's position and locals
    budget,     \* number of requests that can still start
    consumed,   \* identifier -> codes VerifyCode accepted since the last store
    readers     \* identifier -> requests that matched the stored code and
                \* have not deleted it yet

vars == <<users, cache, procs, budget, consumed, readers>>

\* ------------------------------------------------------- account repository
\* repo.UserRepo.GetUser by phone
GetUserByPhone(us, phone) ==
    IF \E u \in us : u.Phone = phone
    THEN CHOOSE u \in us : u.Phone = phone
    ELSE NoUser

\* repo.UserRepo.GetUser by email
GetUserByEmail(us, email) ==
    IF \E u \in us : u.Email = email
    THEN CHOOSE u \in us : u.Email = email
    ELSE NoUser

\* repo.UserRepo.GetUser by identifier
GetUserByUserID(us, id) ==
    IF \E u \in us : u.UserID = id
    THEN CHOOSE u \in us : u.UserID = id
    ELSE NoUser

\* the uniqueness the storage layer enforces on phone and email
Unique(us) ==
    \A u, v \in us :
        u.UserID # v.UserID =>
            /\ (u.Phone # "" => u.Phone # v.Phone)
            /\ (u.Email # "" => u.Email # v.Email)

\* repo.UserRepo.CreateUser: the repository after the write and its error.
\* The storage layer gives a new account the status active.
CreateUserUnchecked(us, user, dbOk) ==
    LET row == [user EXCEPT !.Status = UserStatusActive]
    IN  IF ~dbOk
        THEN [users |-> us, err |-> ErrDatabase]
        ELSE [users |-> us \cup {row}, err |-> ErrNil]

\* CreateUser that persists the status the entity carries
CreateUserAsGiven(us, user, dbOk) ==
    IF ~dbOk
    THEN [users |-> us, err |-> ErrDatabase]
    ELSE IF Unique(us \cup {user}) /\ (\A u \in us : u.UserID # user.UserID)
    THEN [users |-> us \cup {user}, err |-> ErrNil]
    ELSE [users |-> us, err |-> ErrDuplicateKey]

CreateUser(us, user, dbOk) ==
    LET row == [user EXCEPT !.Status = UserStatusActive]
    IN  IF ~dbOk
        THEN [users |-> us, err |-> ErrDatabase]
        ELSE IF Unique(us \cup {row}) /\ (\A u \in us : u.UserID # row.UserID)
        THEN [users |-> us \cup {row}, err |-> ErrNil]
        ELSE [users |-> us, err |-> ErrDuplicateKey]

\* a partial update applied to one entity: the fields the update names
ApplyUpdate(u, upd) ==
    [f \in DOMAIN u |-> IF f \in DOMAIN upd THEN upd[f] ELSE u[f]]

\* repo.UserRepo.UpdateUser: one write of the fields of updateInfo
UpdateUser(us, id, upd, dbOk) ==
    LET after == {IF u.UserID = id THEN ApplyUpdate(u, upd) ELSE u : u \in us}
    IN  IF ~dbOk
        THEN [users |-> us, err |-> ErrDatabase]
        ELSE IF Unique(after)
        THEN [users |-> after, err |-> ErrNil]
        ELSE [users |-> us, err |-> ErrDuplicateKey]

\* the caller the JWT middleware puts into the request context: an active
\* account of the repository, or none on a route without authentication
Callers(us) ==
    {u \in us : u.Status = UserStatusActive} \cup {NoUser}

\* util.GenerateStringID: an identifier no account has
GenerateStringID(us) ==
    1 + Cardinality(us)

\* --------------------------------------------------- verification code store
NoEntry == [code |-> "", age |-> 0, ttl |-> 0]

\* cache.SetRedis(key, value, expiration); expiration 0 means no expiry
SetRedis(c, key, value, expiration) ==
    [c EXCEPT ![key] = [code |-> value, age |-> 0, ttl |-> expiration]]

\* cache.GetRedis(key): "" for a key that is absent or expired
GetRedis(c, key) ==
    IF c[key].ttl > 0 /\ c[key].age >= c[key].ttl THEN "" ELSE c[key].code

\* cache.DelRedis(key)
DelRedis(c, key) ==
    [c EXCEPT ![key] = NoEntry]

\* ----------------------------------------------------------------- requests
\* the answer of net.LookupIP that holds no address
NoLookup == [failed |-> FALSE, ips |-> <<>>]

\* op and pc: the handler and its position; account .. caller: the request
\* and the caller of its context; target: the UserID the handler found,
\* created or writes to; err, token: what the handler returned; fault: the
\* collaborator whose failure the handler met, "" for none
Idle ==
    [op |-> "idle", pc |-> "idle", account |-> "", accountType |-> "",
     code |-> "", password |-> "", purpose |-> "", userName |-> "",
     caller |-> NoUser, target |-> 0, err |-> "", token |-> 0, fault |-> "",
     avatarURL |-> NoURL, lookup |-> NoLookup, reason |-> "", warned |-> FALSE]

\* a handler that has returned: error e after the failure f of a collaborator
Return(r, e, f) ==
    [r EXCEPT !.pc = "done", !.err = e, !.fault = f,
              !.target = IF r.caller.UserID # 0 THEN r.caller.UserID ELSE @,
              !.caller = NoUser, !.userName = "",
              !.password = IF \/ r.op = "Login"
                              \/ r.op \in {"Register", "ResetPassword"} /\ e = ErrNil
                           THEN @ ELSE "",
              !.code = IF r.op \in {"VerifyCode", "SendVerificationCode"}
                       THEN @ ELSE ""]

Done(r, e) == Return(r, e, "")

\* a collaborator is taken to fail only where the handler meets the failure:
\* the failure ok = FALSE is the fault f of the record the handler returns
Met(ok, r, f) == ok \/ (r.pc = "done" /\ r.fault = f)

\* a request of handler op for the pair t of Targets
Request(op, t) ==
    [Idle EXCEPT !.op = op, !.account = t[1], !.accountType = t[2]]

CanStart(p) ==
    /\ procs[p].pc = "idle"
    /\ budget > 0

\* the response of the request in slot p is delivered: the slot takes the
\* next request
Release(p) ==
    /\ procs[p].pc = "done"
    /\ budget > 0
    /\ procs' = [procs EXCEPT ![p] = Idle]
    /\ UNCHANGED <<users, cache, budget, consumed, readers>>

\* findUserByAccount with the queries of the two account types exchanged
findUserByAccountSwapped(us, account, accountType, repoOk) ==
    IF accountType \notin {AccountTypePhone, AccountTypeEmail}
    THEN [user |-> NoUser, err |-> ErrUnsupportedAccountType]
    ELSE IF ~repoOk
    THEN [user |-> NoUser, err |-> ErrInternalError]
    ELSE LET user == IF accountType = AccountTypePhone
                     THEN GetUserByEmail(us, account)
                     ELSE GetUserByPhone(us, account)
         IN  IF user.UserID = 0
             THEN [user |-> NoUser, err |-> ErrUserNotFound]
             ELSE [user |-> user, err |-> ErrNil]

\* findUserByAccount: the user found (NoUser for none) and the error
findUserByAccount(us, account, accountType, repoOk) ==
    IF accountType \notin {AccountTypePhone, AccountTypeEmail}
    THEN [user |-> NoUser, err |-> ErrUnsupportedAccountType]
    ELSE IF ~repoOk
    THEN [user |-> NoUser, err |-> ErrInternalError]
    ELSE LET user == IF accountType = AccountTypePhone
                     THEN GetUserByPhone(us, account)
                     ELSE GetUserByEmail(us, account)
         IN  IF user.UserID = 0
             THEN [user |-> NoUser, err |-> ErrUserNotFound]
             ELSE [user |-> user, err |-> ErrNil]

\* the collaborator that failed when a lookup of the repository was asked
\* for and did not answer
RepoFault(accountType, repoOk) ==
    IF accountType \in {AccountTypePhone, AccountTypeEmail} /\ ~repoOk
    THEN "repo" ELSE ""

\* util.JWTUtil.GenerateToken: the token names the account it was issued for
GenerateToken(userID) == userID

\* ------------------------------------------------------------------- Login
\* Login: the error, the token, the failed collaborator and the UserID of
\* Login that refuses an account that is not active
LoginResultActiveOnly(us, account, accountType, password, repoOk, cmp, jwtOk) ==
    IF account = "" \/ accountType = "" \/ password = ""
    THEN [err |-> ErrInvalidParams, token |-> 0, fault |-> "", found |-> 0]
    ELSE LET found == findUserByAccount(us, account, accountType, repoOk)
             id == found.user.UserID
         IN  IF found.err = ErrUserNotFound
             THEN [err |-> ErrCredentialsIncorrect, token |-> 0, fault |-> "",
                   found |-> 0]
             ELSE IF found.err # ErrNil
             THEN [err |-> found.err, token |-> 0,
                   fault |-> RepoFault(accountType, repoOk), found |-> 0]
             ELSE IF cmp.failed
             THEN [err |-> ErrInternalError, token |-> 0, fault |-> "hasher",
                   found |-> id]
             ELSE IF ~cmp.match
             THEN [err |-> ErrCredentialsIncorrect, token |-> 0, fault |-> "",
                   found |-> id]
             ELSE IF found.user.Status # UserStatusActive
             THEN [err |-> ErrPermissionDenied, token |-> 0, fault |-> "",
                   found |-> id]
             ELSE IF ~jwtOk
             THEN [err |-> ErrInternalError, token |-> 0, fault |-> "jwt",
                   found |-> id]
             ELSE [err |-> ErrNil, token |-> GenerateToken(id), fault |-> "",
                   found |-> id]

\* the account the lookup found
LoginResult(us, account, accountType, password, repoOk, cmp, jwtOk) ==
    IF account = "" \/ accountType = "" \/ password = ""
    THEN [err |-> ErrInvalidParams, token |-> 0, fault |-> "", found |-> 0]
    ELSE LET found == findUserByAccount(us, account, accountType, repoOk)
             id == found.user.UserID
         IN  IF found.err = ErrUserNotFound
             THEN [err |-> ErrCredentialsIncorrect, token |-> 0, fault |-> "",
                   found |-> 0]
             ELSE IF found.err # ErrNil
             THEN [err |-> found.err, token |-> 0,
                   fault |-> RepoFault(accountType, repoOk), found |-> 0]
             ELSE IF cmp.failed
             THEN [err |-> ErrInternalError, token |-> 0, fault |-> "hasher",
                   found |-> id]
             ELSE IF ~cmp.match
             THEN [err |-> ErrCredentialsIncorrect, token |-> 0, fault |-> "",
                   found |-> id]
             ELSE IF ~jwtOk
             THEN [err |-> ErrInternalError, token |-> 0, fault |-> "jwt",
                   found |-> id]
             ELSE [err |-> ErrNil, token |-> GenerateToken(id), fault |-> "",
                   found |-> id]

\* Login deleting the code stored for the account
LoginStoresConsume(us, ch, account) ==
    [users |-> us,
     cache |-> IF account \in DOMAIN ch THEN DelRedis(ch, account) ELSE ch]

\* the accounts and the code store after Login: it calls no write of the
\* repository (the update of the last login is commented out) and none of
\* the cache
LoginStores(us, ch, account) ==
    [users |-> us, cache |-> ch]

Login(p) ==
    /\ CanStart(p)
    /\ \E t \in Targets, password \in PasswordInputs,
          repoOk \in BOOLEAN, jwtOk \in BOOLEAN :
          LET found == findUserByAccount(users, t[1], t[2], repoOk)
          IN  \E cmp \in ComparePassword(found.user.Password, password) :
                LET r == LoginResult(users, t[1], t[2], password, repoOk, cmp, jwtOk)
                    ret == Return([Request("Login", t) EXCEPT
                                      !.password = password,
                                      !.target = r.found,
                                      !.token = r.token], r.err, r.fault)
                IN  /\ Met(repoOk, ret, "repo") /\ Met(jwtOk, ret, "jwt")
                    /\ cmp.failed => ret.fault = "hasher"
                    /\ procs' = [procs EXCEPT ![p] = ret]
                    /\ users' = LoginStores(users, cache, t[1]).users
                    /\ cache' = LoginStores(users, cache, t[1]).cache
    /\ budget' = budget - 1
    /\ UNCHANGED <<consumed, readers>>

\* -------------------------------------------------------------- VerifyCode
\* VerifyCode up to the comparison: the error, ErrNil when the stored code
\* matches and the delete is next
\* VerifyCode without the check of its parameters
VerifyCodeCheckNoParams(account, code, storedCode, cacheOk) ==
    IF ~cacheOk THEN ErrInternalError
    ELSE IF storedCode = "" THEN ErrVerificationCodeIncorrect
    ELSE IF storedCode # code THEN ErrVerificationCodeIncorrect
    ELSE ErrNil

\* VerifyCode that accepts any code for an identifier that has one
VerifyCodeCheckAny(account, code, storedCode, cacheOk) ==
    IF account = "" \/ code = "" THEN ErrInvalidParams
    ELSE IF ~cacheOk THEN ErrInternalError
    ELSE IF storedCode = "" THEN ErrVerificationCodeIncorrect
    ELSE ErrNil

\* VerifyCode that matches the codes of one identifier only
VerifyCodeCheckPhoneOnly(account, code, storedCode, cacheOk) ==
    IF account = "" \/ code = "" THEN ErrInvalidParams
    ELSE IF ~cacheOk THEN ErrInternalError
    ELSE IF storedCode = "" THEN ErrVerificationCodeIncorrect
    ELSE IF storedCode # code \/ account # "13800138000"
    THEN ErrVerificationCodeIncorrect
    ELSE ErrNil

VerifyCodeCheck(account, code, storedCode, cacheOk) ==
    IF account = "" \/ code = "" THEN ErrInvalidParams
    ELSE IF ~cacheOk THEN ErrInternalError
    ELSE IF storedCode = "" THEN ErrVerificationCodeIncorrect
    ELSE IF storedCode # code THEN ErrVerificationCodeIncorrect
    ELSE ErrNil

\* VerifyCode that returns the failure of its delete
AfterVerifyStrict(r, f) ==
    IF f = "del" THEN Return(r, ErrInternalError, f)
    ELSE CASE r.op = "Register" -> [r EXCEPT !.pc = "create", !.code = ""]
           [] r.op = "ResetPassword" -> [r EXCEPT !.pc = "update", !.code = ""]
           [] r.op = "UpdateAccount" -> [r EXCEPT !.pc = "avail", !.code = ""]
           [] OTHER -> Return(r, ErrNil, f)

\* a handler that returns when its VerifyCode returned nil
AfterVerifyEnds(r, f) == Return(r, ErrNil, f)

\* where a handler goes on after its VerifyCode returned nil
AfterVerify(r, f) ==
    CASE r.op = "Register" -> [r EXCEPT !.pc = "create", !.code = ""]
      [] r.op = "ResetPassword" -> [r EXCEPT !.pc = "update", !.code = ""]
      [] r.op = "UpdateAccount" -> [r EXCEPT !.pc = "avail", !.code = ""]
      [] OTHER -> Return(r, ErrNil, f)

\* VerifyCode: cache.GetRedis and the comparison
VerifyGet(p) ==
    /\ procs[p].pc = "get"
    /\ \E cacheOk \in BOOLEAN :
          LET r == procs[p]
              storedCode == IF r.account \in Accounts
                            THEN GetRedis(cache, r.account) ELSE ""
              e == VerifyCodeCheck(r.account, r.code, storedCode, cacheOk)
          IN  IF e = ErrNil
              THEN /\ cacheOk
                   /\ procs' = [procs EXCEPT ![p] = [r EXCEPT !.pc = "del"]]
                   /\ readers' = [readers EXCEPT ![r.account] = @ \cup {p}]
              ELSE /\ cacheOk \/ e = ErrInternalError
                   /\ procs' = [procs EXCEPT ![p] =
                         Return(r, e, IF e = ErrInternalError THEN "cache" ELSE "")]
                   /\ UNCHANGED readers
    /\ UNCHANGED <<users, cache, budget, consumed>>

\* VerifyCode: cache.DelRedis, whose failure is logged and not returned
VerifyDel(p) ==
    /\ procs[p].pc = "del"
    /\ \E delOk \in BOOLEAN :
          LET r == procs[p]
          IN  /\ cache' = IF delOk THEN DelRedis(cache, r.account) ELSE cache
              /\ consumed' = [consumed EXCEPT ![r.account] = @ \cup {r.code}]
              /\ readers' = [readers EXCEPT ![r.account] = @ \ {p}]
              /\ procs' = [procs EXCEPT ![p] =
                    AfterVerify(r, IF delOk THEN "" ELSE "del")]
    /\ UNCHANGED <<users, budget>>

\* a direct call of VerifyCode
VerifyCode(p) ==
    /\ CanStart(p)
    /\ \E t \in Targets, code \in CodeInputs :
          procs' = [procs EXCEPT ![p] =
              [Request("VerifyCode", t) EXCEPT !.pc = "get", !.code = code]]
    /\ budget' = budget - 1
    /\ UNCHANGED <<users, cache, consumed, readers>>

\* ------------------------------------------------------ SendVerificationCode
\* checkAccountAvailabilityForUpdate
\* checkAccountAvailabilityForUpdate that admits every bound identifier
checkAccountAvailabilityLax(us, currentUser, account, accountType, repoOk) ==
    LET found == findUserByAccount(us, account, accountType, repoOk)
    IN  IF found.err = ErrUserNotFound THEN ErrNil
        ELSE IF found.err # ErrNil THEN ErrInternalError
        ELSE ErrNil

\* checkAccountAvailabilityForUpdate that refuses every bound identifier
checkAccountAvailabilityStrict(us, currentUser, account, accountType, repoOk) ==
    LET found == findUserByAccount(us, account, accountType, repoOk)
    IN  IF found.err = ErrUserNotFound THEN ErrNil
        ELSE IF found.err # ErrNil THEN ErrInternalError
        ELSE ErrAccountAlreadyInUse

checkAccountAvailabilityForUpdate(us, currentUser, account, accountType, repoOk) ==
    LET found == findUserByAccount(us, account, accountType, repoOk)
    IN  IF found.err = ErrUserNotFound THEN ErrNil
        ELSE IF found.err # ErrNil THEN ErrInternalError
        ELSE IF found.user.UserID # currentUser.UserID THEN ErrAccountAlreadyInUse
        ELSE ErrNil

\* SendVerificationCode whose purpose register does not look at the account
SendPreconditionOpen(us, account, accountType, purpose, caller, repoOk) ==
    IF account = "" \/ accountType = "" THEN ErrInvalidParams
    ELSE LET found == findUserByAccount(us, account, accountType, repoOk)
         IN  CASE purpose = PurposeRegister ->
                    IF found.err \in {ErrUserNotFound, ErrNil} THEN ErrNil
                    ELSE ErrInternalError
               [] purpose = PurposeResetPassword ->
                    IF found.err = ErrUserNotFound THEN ErrUserNotFound
                    ELSE IF found.err # ErrNil THEN ErrInternalError
                    ELSE ErrNil
               [] purpose = PurposeChangeAccount ->
                    IF caller.UserID = 0 THEN ErrPermissionDenied
                    ELSE checkAccountAvailabilityForUpdate(us, caller, account,
                                                           accountType, repoOk)
               [] OTHER -> ErrNil

\* SendVerificationCode that asks any other purpose for an existing account
SendPreconditionKnown(us, account, accountType, purpose, caller, repoOk) ==
    IF account = "" \/ accountType = "" THEN ErrInvalidParams
    ELSE LET found == findUserByAccount(us, account, accountType, repoOk)
         IN  CASE purpose = PurposeRegister ->
                    IF found.err = ErrUserNotFound THEN ErrNil
                    ELSE IF found.err # ErrNil THEN ErrInternalError
                    ELSE ErrAccountAlreadyInUse
               [] purpose = PurposeChangeAccount ->
                    IF caller.UserID = 0 THEN ErrPermissionDenied
                    ELSE checkAccountAvailabilityForUpdate(us, caller, account,
                                                           accountType, repoOk)
               [] OTHER ->
                    IF found.err = ErrUserNotFound THEN ErrUserNotFound
                    ELSE IF found.err # ErrNil THEN ErrInternalError
                    ELSE ErrNil

\* SendVerificationCode up to the generation of the code: the parameter
\* check and the check of the account the purpose asks for
SendPrecondition(us, account, accountType, purpose, caller, repoOk) ==
    IF account = "" \/ accountType = "" THEN ErrInvalidParams
    ELSE LET found == findUserByAccount(us, account, accountType, repoOk)
         IN  CASE purpose = PurposeRegister ->
                    IF found.err = ErrUserNotFound THEN ErrNil
                    ELSE IF found.err # ErrNil THEN ErrInternalError
                    ELSE ErrAccountAlreadyInUse
               [] purpose = PurposeResetPassword ->
                    IF found.err = ErrUserNotFound THEN ErrUserNotFound
                    ELSE IF found.err # ErrNil THEN ErrInternalError
                    ELSE ErrNil
               [] purpose = PurposeChangeAccount ->
                    IF caller.UserID = 0 THEN ErrPermissionDenied
                    ELSE checkAccountAvailabilityForUpdate(us, caller, account,
                                                           accountType, repoOk)
               [] OTHER -> ErrNil

SendVerificationCode(p) ==
    /\ CanStart(p)
    /\ \E t \in Targets, purpose \in PurposeInputs, caller \in Callers(users),
          repoOk \in BOOLEAN :
          LET e == SendPrecondition(users, t[1], t[2], purpose, caller, repoOk)
              r == [Request("SendVerificationCode", t) EXCEPT
                       !.purpose = purpose, !.caller = caller]
              ret == IF e = ErrNil
                     THEN [r EXCEPT !.pc = "set"]
                     ELSE Return(r, e, IF e = ErrInternalError
                                       THEN RepoFault(t[2], repoOk) ELSE "")
          IN  /\ purpose # PurposeChangeAccount => caller = NoUser
              /\ Met(repoOk, ret, "repo")
              /\ procs' = [procs EXCEPT ![p] = ret]
    /\ budget' = budget - 1
    /\ UNCHANGED <<users, cache, consumed, readers>>

\* the expiry SendVerificationCode stores a code with
SendExpirationHours == Expiration * 60

SendExpiration == Expiration

\* generateVerificationCode, cache.SetRedis and the choice of the dispatcher
SendSet(p) ==
    /\ procs[p].pc = "set"
    /\ \E code \in Codes, setOk \in BOOLEAN :
          LET r == procs[p]
          IN  IF ~setOk
              THEN /\ procs' = [procs EXCEPT ![p] =
                                  Return(r, ErrInternalError, "cache")]
                   /\ UNCHANGED <<cache, consumed, readers>>
              ELSE /\ cache' = SetRedis(cache, r.account, code, SendExpiration)
                   /\ consumed' = [consumed EXCEPT ![r.account] = {}]
                   /\ readers' = [readers EXCEPT ![r.account] = {}]
                   /\ procs' = [procs EXCEPT ![p] =
                         IF r.accountType \in {AccountTypeEmail, AccountTypePhone}
                         THEN [r EXCEPT !.pc = "dispatch", !.code = code]
                         ELSE Done([r EXCEPT !.code = code],
                                   ErrUnsupportedAccountType)]
    /\ UNCHANGED <<users, budget>>

\* codeService.SendEmailCode / SendSMSCode and, when it fails, the rollback
\* cache.DelRedis, whose own failure is logged only
SendDispatch(p) ==
    /\ procs[p].pc = "dispatch"
    /\ \E sendOk \in BOOLEAN, delOk \in BOOLEAN :
          LET r == procs[p]
          IN  IF sendOk
              THEN /\ delOk
                   /\ procs' = [procs EXCEPT ![p] = Done(r, ErrNil)]
                   /\ UNCHANGED cache
              ELSE /\ procs' = [procs EXCEPT ![p] =
                         Return(r, ErrInternalError,
                                IF delOk THEN "dispatch" ELSE "del")]
                   /\ cache' = IF delOk THEN DelRedis(cache, r.account) ELSE cache
    /\ UNCHANGED <<users, budget, consumed, readers>>

\* ---------------------------------------------------------------- Register
\* Register up to VerifyCode: the parameter check and the existence check
RegisterPreconditionNoLookup(us, account, accountType, password, repoOk) ==
    IF account = "" \/ accountType = "" \/ password = "" THEN ErrInvalidParams
    ELSE LET found == findUserByAccount(us, account, accountType, repoOk)
         IN  IF found.err \in {ErrUserNotFound, ErrNil} THEN ErrNil
             ELSE found.err

RegisterPrecondition(us, account, accountType, password, repoOk) ==
    IF account = "" \/ accountType = "" \/ password = "" THEN ErrInvalidParams
    ELSE LET found == findUserByAccount(us, account, accountType, repoOk)
         IN  IF found.err = ErrUserNotFound THEN ErrNil
             ELSE IF found.err # ErrNil THEN found.err
             ELSE ErrUserAlreadyExists

Register(p) ==
    /\ CanStart(p)
    /\ \E userName \in UserNameInputs, t \in Targets, code \in CodeInputs,
          password \in PasswordInputs, repoOk \in BOOLEAN :
          LET e == RegisterPrecondition(users, t[1], t[2], password, repoOk)
              r == [Request("Register", t) EXCEPT
                       !.userName = userName, !.code = code,
                       !.password = password]
              ret == IF e = ErrNil
                     THEN [r EXCEPT !.pc = "get"]
                     ELSE Return(r, e, IF e = ErrInternalError THEN "repo" ELSE "")
          IN  /\ Met(repoOk, ret, "repo")
              /\ procs' = [procs EXCEPT ![p] = ret]
    /\ budget' = budget - 1
    /\ UNCHANGED <<users, cache, consumed, readers>>

\* the value Register writes as the password
\* Register without the check of the password
RegisterPolicyOff(plain) == ErrNil

\* the check of the password in Register
RegisterPolicy(plain) == ValidatePasswordStrength(plain)

RegisterPasswordPlain(plain) == plain

RegisterPassword(plain) == HashPassword(plain)

\* the entity Register assembles
RegisterEntity(userID, userName, account, accountType, password) ==
    [UserID |-> userID, UserName |-> userName,
     Password |-> RegisterPassword(password),
     Phone |-> IF accountType = AccountTypePhone THEN account ELSE "",
     PhoneVerified |-> (accountType = AccountTypePhone),
     Email |-> IF accountType = AccountTypeEmail THEN account ELSE "",
     EmailVerified |-> (accountType = AccountTypeEmail),
     Status |-> "", Avatar |-> NoURL]

\* Register after VerifyCode: password policy, identifier, hash, CreateUser
RegisterCreate(p) ==
    /\ procs[p].pc = "create"
    /\ \E idOk \in BOOLEAN, hashOk \in BOOLEAN, dbOk \in BOOLEAN :
          LET r == procs[p]
              weak == RegisterPolicy(r.password)
              user == RegisterEntity(GenerateStringID(users), r.userName,
                                     r.account, r.accountType, r.password)
              w == CreateUser(users, user, dbOk)
          IN  IF weak # ErrNil
              THEN /\ idOk /\ hashOk /\ dbOk
                   /\ procs' = [procs EXCEPT ![p] = Done(r, weak)]
                   /\ UNCHANGED users
              ELSE IF ~idOk
              THEN /\ hashOk /\ dbOk
                   /\ procs' = [procs EXCEPT ![p] =
                                  Return(r, ErrInternalError, "id")]
                   /\ UNCHANGED users
              ELSE IF ~hashOk
              THEN /\ dbOk
                   /\ procs' = [procs EXCEPT ![p] =
                                  Return(r, ErrInternalError, "hasher")]
                   /\ UNCHANGED users
              ELSE /\ users' = w.users
                   /\ procs' = [procs EXCEPT ![p] =
                         Return([r EXCEPT !.target =
                                    IF w.err = ErrNil THEN user.UserID ELSE 0],
                                w.err, IF w.err = ErrNil THEN "" ELSE "db")]
    /\ UNCHANGED <<cache, budget, consumed, readers>>

\* -------------------------------------------------------------- GetUserByID
\* the userID arguments of GetUserByID; 0 is the empty one
UserIDInputs == {0, 1, 2}

GetUserByIDResult(us, userID, repoOk) ==
    IF userID = 0 THEN ErrInvalidParams
    ELSE IF ~repoOk THEN ErrInternalError
    ELSE IF GetUserByUserID(us, userID).UserID = 0 THEN ErrUserNotFound
    ELSE IF GetUserByUserID(us, userID).Status # UserStatusActive
    THEN ErrPermissionDenied
    ELSE ErrNil

GetUserByID(p) ==
    /\ CanStart(p)
    /\ \E userID \in UserIDInputs, repoOk \in BOOLEAN :
          LET e == GetUserByIDResult(users, userID, repoOk)
              r == [Idle EXCEPT !.op = "GetUserByID", !.target = userID]
              ret == Return(r, e, IF e = ErrInternalError THEN "repo" ELSE "")
          IN  /\ Met(repoOk, ret, "repo")
              /\ procs' = [procs EXCEPT ![p] = ret]
    /\ budget' = budget - 1
    /\ UNCHANGED <<users, cache, consumed, readers>>

\* ----------------------------------------------------------- ResetPassword
\* ResetPassword without the comparison of the two passwords
ResetPreconditionNoConfirm(us, account, accountType, newPassword, confirmPassword, repoOk) ==
    IF account = "" \/ accountType = "" \/ newPassword = "" \/ confirmPassword = ""
    THEN ErrInvalidParams
    ELSE findUserByAccount(us, account, accountType, repoOk).err

\* ResetPassword up to VerifyCode
ResetPrecondition(us, account, accountType, newPassword, confirmPassword, repoOk) ==
    IF account = "" \/ accountType = "" \/ newPassword = "" \/ confirmPassword = ""
    THEN ErrInvalidParams
    ELSE IF newPassword # confirmPassword THEN ErrPasswordMismatch
    ELSE findUserByAccount(us, account, accountType, repoOk).err

ResetPassword(p) ==
    /\ CanStart(p)
    /\ \E t \in Targets, code \in CodeInputs, newPassword \in PasswordInputs,
          confirmPassword \in PasswordInputs, repoOk \in BOOLEAN :
          LET e == ResetPrecondition(users, t[1], t[2], newPassword,
                                     confirmPassword, repoOk)
              r == [Request("ResetPassword", t) EXCEPT
                       !.code = code, !.password = newPassword]
              ret == IF e = ErrNil
                     THEN [r EXCEPT !.pc = "get",
                                    !.target = findUserByAccount(users, t[1], t[2],
                                                              repoOk).user.UserID]
                     ELSE Return(r, e, IF e = ErrInternalError THEN "repo" ELSE "")
          IN  /\ Met(repoOk, ret, "repo")
              /\ procs' = [procs EXCEPT ![p] = ret]
    /\ budget' = budget - 1
    /\ UNCHANGED <<users, cache, consumed, readers>>

\* the password written as it was given
PasswordToStorePlain(plain) == plain

\* the value ResetPassword and UpdateAccount write as the password
PasswordToStore(plain) == HashPassword(plain)

\* an updateInfo that also withdraws the verification of the contacts
ResetInfoWide(password) ==
    [Password |-> PasswordToStore(password),
     PhoneVerified |-> FALSE, EmailVerified |-> FALSE]

\* the updateInfo ResetPassword assembles
ResetInfo(password) == [Password |-> PasswordToStore(password)]

\* ResetPassword after VerifyCode: password policy, hash, UpdateUser
ResetUpdate(p) ==
    /\ procs[p].pc = "update"
    /\ procs[p].op = "ResetPassword"
    /\ \E hashOk \in BOOLEAN, dbOk \in BOOLEAN :
          LET r == procs[p]
              weak == ValidatePasswordStrength(r.password)
              w == UpdateUser(users, r.target, ResetInfo(r.password), dbOk)
          IN  IF weak # ErrNil
              THEN /\ hashOk /\ dbOk
                   /\ procs' = [procs EXCEPT ![p] = Done(r, weak)]
                   /\ UNCHANGED users
              ELSE IF ~hashOk
              THEN /\ dbOk
                   /\ procs' = [procs EXCEPT ![p] =
                                  Return(r, ErrInternalError, "hasher")]
                   /\ UNCHANGED users
              ELSE /\ users' = w.users
                   /\ procs' = [procs EXCEPT ![p] =
                         IF w.err = ErrNil THEN Done(r, ErrNil)
                         ELSE Return(r, ErrInternalError, "db")]
    /\ UNCHANGED <<cache, budget, consumed, readers>>

\* ----------------------------------------------------------- UpdateAccount
\* UpdateAccount that does not ask for a password
UpdatePreconditionNoPassword(account, accountType, code, password, caller) ==
    IF account = "" \/ accountType = "" \/ code = "" THEN ErrInvalidParams
    ELSE IF caller.UserID = 0 THEN ErrPermissionDenied
    ELSE ErrNil

\* UpdateAccount up to VerifyCode
UpdatePrecondition(account, accountType, code, password, caller) ==
    IF account = "" \/ accountType = "" \/ code = "" THEN ErrInvalidParams
    ELSE IF caller.UserID = 0 THEN ErrPermissionDenied
    ELSE IF caller.Password = "" /\ password = "" THEN ErrPasswordRequired
    ELSE ErrNil

UpdateAccount(p) ==
    /\ CanStart(p)
    /\ \E t \in Targets, code \in CodeInputs, password \in PasswordInputs,
          caller \in Callers(users) :
          LET e == UpdatePrecondition(t[1], t[2], code, password, caller)
              r == [Request("UpdateAccount", t) EXCEPT
                       !.code = code, !.password = password, !.caller = caller]
          IN  procs' = [procs EXCEPT ![p] =
                  IF e = ErrNil THEN [r EXCEPT !.pc = "get"] ELSE Done(r, e)]
    /\ budget' = budget - 1
    /\ UNCHANGED <<users, cache, consumed, readers>>

\* UpdateAccount: the availability check after VerifyCode
UpdateAvail(p) ==
    /\ procs[p].pc = "avail"
    /\ \E repoOk \in BOOLEAN :
          LET r == procs[p]
              e == checkAccountAvailabilityForUpdate(users, r.caller, r.account,
                                                     r.accountType, repoOk)
              ret == IF e = ErrNil
                     THEN [r EXCEPT !.pc = "update"]
                     ELSE Return(r, e, IF e = ErrInternalError
                                       THEN RepoFault(r.accountType, repoOk) ELSE "")
          IN  /\ Met(repoOk, ret, "repo")
              /\ procs' = [procs EXCEPT ![p] = ret]
    /\ UNCHANGED <<users, cache, budget, consumed, readers>>

\* an updateInfo that replaces the contacts of the account by the new one
UpdateAccountInfoReplace(account, accountType, password) ==
    LET contact == IF accountType = AccountTypePhone
                   THEN [Phone |-> account, PhoneVerified |-> TRUE,
                         Email |-> "", EmailVerified |-> FALSE]
                   ELSE [Email |-> account, EmailVerified |-> TRUE,
                         Phone |-> "", PhoneVerified |-> FALSE]
    IN  IF password # ""
        THEN contact @@ [Password |-> PasswordToStore(password)]
        ELSE contact

\* the updateInfo UpdateAccount assembles for a supported account type
UpdateAccountInfo(account, accountType, password) ==
    LET contact == IF accountType = AccountTypePhone
                   THEN [Phone |-> account, PhoneVerified |-> TRUE]
                   ELSE [Email |-> account, EmailVerified |-> TRUE]
    IN  IF password # ""
        THEN contact @@ [Password |-> PasswordToStore(password)]
        ELSE contact

\* UpdateAccount: updateInfo, password policy, hash, UpdateUser
UpdateWrite(p) ==
    /\ procs[p].pc = "update"
    /\ procs[p].op = "UpdateAccount"
    /\ \E hashOk \in BOOLEAN, dbOk \in BOOLEAN :
          LET r == procs[p]
              weak == IF r.password # ""
                      THEN ValidatePasswordStrength(r.password) ELSE ErrNil
              w == UpdateUser(users, r.caller.UserID,
                              UpdateAccountInfo(r.account, r.accountType,
                                                r.password), dbOk)
          IN  IF r.accountType \notin {AccountTypePhone, AccountTypeEmail}
              THEN /\ hashOk /\ dbOk
                   /\ procs' = [procs EXCEPT ![p] =
                                  Done(r, ErrUnsupportedAccountType)]
                   /\ UNCHANGED users
              ELSE IF weak # ErrNil
              THEN /\ hashOk /\ dbOk
                   /\ procs' = [procs EXCEPT ![p] = Done(r, weak)]
                   /\ UNCHANGED users
              ELSE IF r.password # "" /\ ~hashOk
              THEN /\ dbOk
                   /\ procs' = [procs EXCEPT ![p] =
                                  Return(r, ErrInternalError, "hasher")]
                   /\ UNCHANGED users
              ELSE /\ hashOk \/ r.password # ""
                   /\ users' = w.users
                   /\ procs' = [procs EXCEPT ![p] =
                         IF w.err = ErrNil THEN Done(r, ErrNil)
                         ELSE Return(r, ErrInternalError, "db")]
    /\ UNCHANGED <<cache, budget, consumed, readers>>

\* UnbindAccount without the comparison with the bound value
UnbindPreconditionAnyValue(account, accountType, caller) ==
    IF account = "" \/ accountType = "" THEN ErrInvalidParams
    ELSE IF caller.UserID = 0 THEN ErrPermissionDenied
    ELSE IF accountType \notin {AccountTypePhone, AccountTypeEmail}
    THEN ErrUnsupportedAccountType
    ELSE LET currentContact == IF accountType = AccountTypePhone
                               THEN caller.Phone ELSE caller.Email
             otherContact == IF accountType = AccountTypePhone
                             THEN caller.Email ELSE caller.Phone
         IN  IF currentContact = "" THEN ErrInvalidParams
             ELSE IF otherContact = "" THEN ErrCannotUnbindOnlyContact
             ELSE ErrNil

\* UnbindAccount without the check of the other contact
UnbindPreconditionLax(account, accountType, caller) ==
    IF account = "" \/ accountType = "" THEN ErrInvalidParams
    ELSE IF caller.UserID = 0 THEN ErrPermissionDenied
    ELSE IF accountType \notin {AccountTypePhone, AccountTypeEmail}
    THEN ErrUnsupportedAccountType
    ELSE LET currentContact == IF accountType = AccountTypePhone
                               THEN caller.Phone ELSE caller.Email
         IN  IF currentContact = "" THEN ErrInvalidParams
             ELSE IF account # currentContact THEN ErrInvalidParams
             ELSE ErrNil

\* ----------------------------------------------------------- UnbindAccount
\* UnbindAccount up to UpdateUser: the checks against the caller of the
\* request context
UnbindPrecondition(account, accountType, caller) ==
    IF account = "" \/ accountType = "" THEN ErrInvalidParams
    ELSE IF caller.UserID = 0 THEN ErrPermissionDenied
    ELSE IF accountType \notin {AccountTypePhone, AccountTypeEmail}
    THEN ErrUnsupportedAccountType
    ELSE LET currentContact == IF accountType = AccountTypePhone
                               THEN caller.Phone ELSE caller.Email
             otherContact == IF accountType = AccountTypePhone
                             THEN caller.Email ELSE caller.Phone
         IN  IF currentContact = "" THEN ErrInvalidParams
             ELSE IF account # currentContact THEN ErrInvalidParams
             ELSE IF otherContact = "" THEN ErrCannotUnbindOnlyContact
             ELSE ErrNil

UnbindAccount(p) ==
    /\ CanStart(p)
    /\ \E t \in Targets, caller \in Callers(users) :
          LET e == UnbindPrecondition(t[1], t[2], caller)
              r == [Request("UnbindAccount", t) EXCEPT !.caller = caller]
          IN  procs' = [procs EXCEPT ![p] =
                  IF e = ErrNil THEN [r EXCEPT !.pc = "update"] ELSE Done(r, e)]
    /\ budget' = budget - 1
    /\ UNCHANGED <<users, cache, consumed, readers>>

\* the updateInfo UnbindAccount assembles
\* an updateInfo that empties the contact and leaves its verification
UnbindInfoValueOnly(accountType) ==
    IF accountType = AccountTypePhone
    THEN [Phone |-> ""]
    ELSE [Email |-> ""]

UnbindInfo(accountType) ==
    IF accountType = AccountTypePhone
    THEN [Phone |-> "", PhoneVerified |-> FALSE]
    ELSE [Email |-> "", EmailVerified |-> FALSE]

\* UnbindAccount: UpdateUser
UnbindWrite(p) ==
    /\ procs[p].pc = "update"
    /\ procs[p].op = "UnbindAccount"
    /\ \E dbOk \in BOOLEAN :
          LET r == procs[p]
              w == UpdateUser(users, r.caller.UserID, UnbindInfo(r.accountType), dbOk)
          IN  /\ users' = w.users
              /\ procs' = [procs EXCEPT ![p] =
                    IF w.err = ErrNil THEN Done(r, ErrNil)
                    ELSE Return(r, ErrInternalError, "db")]
    /\ UNCHANGED <<cache, budget, consumed, readers>>

\* --------------------------------------------------------------- net.IP
\* an address is the sequence of its 4 or 16 bytes; <<>> is the nil address
v4InV6Prefix == <<0, 0, 0, 0, 0, 0, 0, 0, 0, 0, 255, 255>>

IPv6loopback == <<0, 0, 0, 0, 0, 0, 0, 0, 0, 0, 0, 0, 0, 0, 0, 1>>

IPv6unspecified == <<0, 0, 0, 0, 0, 0, 0, 0, 0, 0, 0, 0, 0, 0, 0, 0>>

IPv4zero == <<0, 0, 0, 0>>

\* net.IP.To4: the 4 bytes of an IPv4 address, also of one in 16 bytes
To4(ip) ==
    IF Len(ip) = 4 THEN ip
    ELSE IF Len(ip) = 16 /\ SubSeq(ip, 1, 12) = v4InV6Prefix
    THEN SubSeq(ip, 13, 16)
    ELSE <<>>

\* net.IP.Equal: an IPv4 address equals its form in 16 bytes
Equal(ip, x) ==
    IF Len(ip) = Len(x) THEN ip = x
    ELSE IF Len(ip) = 4 /\ Len(x) = 16
    THEN SubSeq(x, 1, 12) = v4InV6Prefix /\ ip = SubSeq(x, 13, 16)
    ELSE IF Len(ip) = 16 /\ Len(x) = 4
    THEN SubSeq(ip, 1, 12) = v4InV6Prefix /\ SubSeq(ip, 13, 16) = x
    ELSE FALSE

IsLoopback(ip) ==
    IF To4(ip) # <<>> THEN To4(ip)[1] = 127 ELSE Equal(ip, IPv6loopback)

IsLinkLocalUnicast(ip) ==
    IF To4(ip) # <<>> THEN To4(ip)[1] = 169 /\ To4(ip)[2] = 254
    ELSE Len(ip) = 16 /\ ip[1] = 254 /\ (ip[2] \div 64) * 64 = 128

IsPrivate(ip) ==
    IF To4(ip) # <<>>
    THEN \/ To4(ip)[1] = 10
         \/ To4(ip)[1] = 172 /\ (To4(ip)[2] \div 16) * 16 = 16
         \/ To4(ip)[1] = 192 /\ To4(ip)[2] = 168
    ELSE Len(ip) = 16 /\ (ip[1] \div 2) * 2 = 252

IsMulticast(ip) ==
    IF To4(ip) # <<>> THEN (To4(ip)[1] \div 16) * 16 = 224
    ELSE Len(ip) = 16 /\ ip[1] = 255

IsUnspecified(ip) ==
    Equal(ip, IPv4zero) \/ Equal(ip, IPv6unspecified)

\* isPrivateIP: the addresses the validator refuses
isPrivateIP(ip) ==
    IF ip = <<>> THEN FALSE
    ELSE IF IsLoopback(ip) \/ IsLinkLocalUnicast(ip) \/ IsPrivate(ip)
            \/ IsMulticast(ip)
    THEN TRUE
    ELSE IF To4(ip) # <<>> THEN To4(ip)[1] = 0
    ELSE IsUnspecified(ip)

\* ----------------------------------------------------------------- net/url
\* the runs of decimal digits and their numbers
Decimal ==
    ("0" :> 0) @@ ("1" :> 1) @@ ("2" :> 2) @@ ("3" :> 3) @@ ("8" :> 8)
    @@ ("10" :> 10) @@ ("16" :> 16) @@ ("34" :> 34) @@ ("80" :> 80)
    @@ ("93" :> 93) @@ ("127" :> 127) @@ ("168" :> 168) @@ ("169" :> 169)
    @@ ("172" :> 172) @@ ("184" :> 184) @@ ("192" :> 192) @@ ("216" :> 216)
    @@ ("224" :> 224) @@ ("254" :> 254) @@ ("256" :> 256)

\* the groups of hexadecimal digits and their numbers
Hex ==
    ("0" :> 0) @@ ("1" :> 1) @@ ("fe80" :> 65152) @@ ("fc00" :> 64512)
    @@ ("ff02" :> 65282) @@ ("2001" :> 8193) @@ ("4860" :> 18528)
    @@ ("8888" :> 34952)

\* the characters of the URL syntax, one token each
Punctuation == {":", "/", "?", "#", ".", "@", "=", "&", "[", "]", "*", "<"}

\* the escapes and the characters they stand for
Escapes == ("%2e" :> ".") @@ ("%2f" :> "/")

\* the runs of 256 and of 2049 letters
LongName == "x{256}"

LongText == "x{2049}"

\* len: the number of characters of a token and of a string of tokens
TokenLen(tok) ==
    IF tok = LongName THEN 256
    ELSE IF tok = LongText THEN 2049
    ELSE IF tok \in DOMAIN Escapes THEN 3
    ELSE Len(tok)

RECURSIVE StringLen(_)
StringLen(s) ==
    IF s = <<>> THEN 0 ELSE TokenLen(Head(s)) + StringLen(Tail(s))

\* strings.ToLower, of a token and of a string
LowerCase == ("HTTP" :> "http") @@ ("HTTPS" :> "https") @@ ("PNG" :> "png")

ToLower(s) ==
    [i \in 1..Len(s) |-> IF s[i] \in DOMAIN LowerCase THEN LowerCase[s[i]]
                         ELSE s[i]]

\* strings.Index and strings.LastIndex of a character; 0 for none
Index(s, c) ==
    IF \E i \in 1..Len(s) : s[i] = c
    THEN CHOOSE i \in 1..Len(s) : s[i] = c /\ \A j \in 1..(i - 1) : s[j] # c
    ELSE 0

LastIndex(s, c) ==
    IF \E i \in 1..Len(s) : s[i] = c
    THEN CHOOSE i \in 1..Len(s) : s[i] = c /\ \A j \in (i + 1)..Len(s) : s[j] # c
    ELSE 0

\* strings.Contains of the two characters a b in a row
Contains(s, a, b) ==
    \E i \in 1..(Len(s) - 1) : s[i] = a /\ s[i + 1] = b

\* the string from its i-th token on
From(s, i) == SubSeq(s, i, Len(s))

\* F of the value v, the value computed once
With(v, F(_)) == CHOOSE r \in {F(x) : x \in {v}} : TRUE

\* url.unescape: the string with its escapes decoded
unescape(s) ==
    [i \in 1..Len(s) |-> IF s[i] \in DOMAIN Escapes THEN Escapes[s[i]] ELSE s[i]]

\* the index of the first token of the string that cannot belong to a
\* scheme; 0 for none
schemeEnd(rawURL) ==
    LET ok(i) == /\ rawURL[i] \notin Punctuation \ {"."}
                 /\ rawURL[i] \notin DOMAIN Escapes
    IN  IF \E i \in 1..Len(rawURL) : ~ok(i)
        THEN CHOOSE i \in 1..Len(rawURL) : ~ok(i) /\ \A j \in 1..(i - 1) : ok(j)
        ELSE 0

\* url.getScheme: the letters, digits and dots before the first colon, if
\* they start with a letter; failed for a URL that starts with the colon
getScheme(rawURL) ==
    With(schemeEnd(rawURL), LAMBDA stop :
        IF stop = 1 /\ rawURL[1] = ":"
        THEN [scheme |-> <<>>, rest |-> rawURL, failed |-> TRUE]
        ELSE IF /\ stop > 1
                /\ rawURL[stop] = ":"
                /\ rawURL[1] # "."
                /\ rawURL[1] \notin DOMAIN Decimal
        THEN [scheme |-> SubSeq(rawURL, 1, stop - 1),
              rest |-> From(rawURL, stop + 1), failed |-> FALSE]
        ELSE [scheme |-> <<>>, rest |-> rawURL, failed |-> FALSE])

\* url.validOptionalPort: nothing, or a colon and digits
validOptionalPort(port) ==
    \/ port = <<>>
    \/ port = <<":">>
    \/ Len(port) = 2 /\ port[1] = ":" /\ port[2] \in DOMAIN Decimal

\* url.parseAuthority and url.parseHost: the host with its port, after the
\* user information
parseAuthority(authority) ==
    With(LastIndex(authority, "@"), LAMBDA at :
    With(From(authority, at + 1), LAMBDA host :
        [host |-> host,
         failed |->
            \/ IF host # <<>> /\ host[1] = "["
               THEN \/ LastIndex(host, "]") = 0
                    \/ ~validOptionalPort(From(host, LastIndex(host, "]") + 1))
               ELSE /\ LastIndex(host, ":") # 0
                    /\ ~validOptionalPort(From(host, LastIndex(host, ":")))
            \/ \E i \in 1..(at - 1) : authority[i] \in {"[", "]"}]))

\* url.parse after the scheme s and the query are cut off: the authority
\* and the path of rest
parseRest(s, rest, query, frag) ==
    LET rooted == rest # <<>> /\ rest[1] = "/"
        slashes == Len(rest) >= 2 /\ rest[1] = "/" /\ rest[2] = "/"
        three == Len(rest) >= 3 /\ slashes /\ rest[3] = "/"
        hasAuthority == (s.scheme # <<>> \/ ~three) /\ slashes
        segment == IF Index(rest, "/") = 0 THEN rest
                   ELSE SubSeq(rest, 1, Index(rest, "/") - 1)
        none == [failed |-> TRUE, Scheme |-> <<>>, Host |-> <<>>,
                 Path |-> <<>>, RawQuery |-> <<>>, Fragment |-> <<>>]
    IN  IF s.failed THEN none
        ELSE IF ~rooted /\ s.scheme # <<>>
        THEN [failed |-> FALSE, Scheme |-> ToLower(s.scheme), Host |-> <<>>,
              Path |-> <<>>, RawQuery |-> query, Fragment |-> unescape(frag)]
        ELSE IF ~rooted /\ Index(segment, ":") # 0 THEN none
        ELSE IF ~hasAuthority
        THEN [failed |-> FALSE, Scheme |-> ToLower(s.scheme), Host |-> <<>>,
              Path |-> unescape(rest), RawQuery |-> query,
              Fragment |-> unescape(frag)]
        ELSE With(Index(From(rest, 3), "/"), LAMBDA cut :
             With(parseAuthority(IF cut = 0 THEN From(rest, 3)
                                 ELSE SubSeq(rest, 3, cut + 1)), LAMBDA a :
                 IF a.failed THEN none
                 ELSE [failed |-> FALSE, Scheme |-> ToLower(s.scheme),
                       Host |-> a.host,
                       Path |-> IF cut = 0 THEN <<>>
                                ELSE unescape(From(rest, cut + 2)),
                       RawQuery |-> query, Fragment |-> unescape(frag)]))

\* url.Parse
Parse(rawURL) ==
    With(Index(rawURL, "#"), LAMBDA hash :
    With(getScheme(IF hash = 0 THEN rawURL ELSE SubSeq(rawURL, 1, hash - 1)),
         LAMBDA s :
    With(Index(s.rest, "?"), LAMBDA mark :
    With(IF mark = 0 THEN s.rest ELSE SubSeq(s.rest, 1, mark - 1),
         LAMBDA rest :
        parseRest(s, rest,
                  IF mark = 0 THEN <<>> ELSE From(s.rest, mark + 1),
                  IF hash = 0 THEN <<>> ELSE From(rawURL, hash + 1))))))

\* url.URL.Hostname: the host without its port and without its brackets
Hostname(host) ==
    LET colon == LastIndex(host, ":")
        h == IF colon # 0 /\ validOptionalPort(From(host, colon))
             THEN SubSeq(host, 1, colon - 1) ELSE host
    IN  IF Len(h) >= 2 /\ h[1] = "[" /\ h[Len(h)] = "]"
        THEN SubSeq(h, 2, Len(h) - 1) ELSE h

\* net.ParseIP of four decimal numbers up to 255 between dots
parseIPv4(host) ==
    IF /\ Len(host) = 7
       /\ \A i \in {2, 4, 6} : host[i] = "."
       /\ \A i \in {1, 3, 5, 7} : host[i] \in DOMAIN Decimal
       /\ \A i \in {1, 3, 5, 7} : Decimal[host[i]] <= 255
    THEN <<Decimal[host[1]], Decimal[host[3]], Decimal[host[5]], Decimal[host[7]]>>
    ELSE <<>>

\* the groups of a string h:h:..:h of hexadecimal groups; failed otherwise
groups(s) ==
    IF s = <<>> THEN [failed |-> FALSE, of |-> <<>>]
    ELSE IF /\ Len(s) % 2 = 1
            /\ \A i \in 1..Len(s) : IF i % 2 = 1 THEN s[i] \in DOMAIN Hex
                                    ELSE s[i] = ":"
    THEN [failed |-> FALSE, of |-> [g \in 1..((Len(s) + 1) \div 2) |-> Hex[s[2 * g - 1]]]]
    ELSE [failed |-> TRUE, of |-> <<>>]

\* net.ParseIP of groups of hexadecimal digits between colons, one run of
\* zero groups written as two colons
parseIPv6(host) ==
    LET hasEllipsis == Contains(host, ":", ":")
        e == IF hasEllipsis
             THEN CHOOSE i \in 1..(Len(host) - 1) :
                      /\ host[i] = ":" /\ host[i + 1] = ":"
                      /\ \A j \in 1..(i - 1) : ~(host[j] = ":" /\ host[j + 1] = ":")
             ELSE 0
        left == groups(IF hasEllipsis THEN SubSeq(host, 1, e - 1) ELSE host)
        right == groups(IF hasEllipsis THEN From(host, e + 2) ELSE <<>>)
        nl == Len(left.of)
        nr == Len(right.of)
        group(g) == IF g <= nl THEN left.of[g]
                    ELSE IF g > 8 - nr THEN right.of[g - (8 - nr)]
                    ELSE 0
    IN  IF left.failed \/ right.failed THEN <<>>
        ELSE IF hasEllipsis /\ nl + nr > 7 THEN <<>>
        ELSE IF ~hasEllipsis /\ nl # 8 THEN <<>>
        ELSE [i \in 1..16 |-> IF i % 2 = 1 THEN group((i + 1) \div 2) \div 256
                              ELSE group((i + 1) \div 2) % 256]

\* net.ParseIP: the address a literal stands for, or nil
ParseIP(host) ==
    IF parseIPv4(host) # <<>> THEN parseIPv4(host) ELSE parseIPv6(host)

\* ------------------------------------------------------- validateAvatarURL
maxURLLength == 2048

maxFileNameLength == 255

\* the dangerous characters of a file name that are characters of the URLs
\* of the model
dangerousChars == {"<", "*"}

\* strings.Trim(path, "/")
Trim(path) ==
    LET inner == {i \in 1..Len(path) : path[i] # "/"}
    IN  IF inner = {} THEN <<>>
        ELSE SubSeq(path, CHOOSE i \in inner : \A j \in inner : i <= j,
                          CHOOSE i \in inner : \A j \in inner : i >= j)

\* the last part of the trimmed path
fileName(path) == From(Trim(path), LastIndex(Trim(path), "/") + 1)

\* the check of the resolved addresses that looks at the first one only
resolvesPrivateFirst(ips) ==
    ips # <<>> /\ isPrivateIP(ips[1])

\* the loop over the resolved addresses
resolvesPrivate(ips) ==
    \E i \in 1..Len(ips) : isPrivateIP(ips[i])

\* the check of a host name that lets a failed resolution pass
checkLookupLenient(lookup) ==
    IF lookup.failed THEN ""
    ELSE IF Len(lookup.ips) = 0 THEN ""
    ELSE IF resolvesPrivate(lookup.ips) THEN "resolves to private"
    ELSE ""

\* the check of a host name: the reason to refuse it, "" for none
checkLookup(lookup) ==
    IF lookup.failed THEN "failed to resolve"
    ELSE IF Len(lookup.ips) = 0 THEN "no addresses"
    ELSE IF resolvesPrivate(lookup.ips) THEN "resolves to private"
    ELSE ""

\* the check of the path that looks for the two dots only
dangerousPathDots(path) ==
    Contains(path, ".", ".")

\* the check of the path
dangerousPath(path) ==
    Contains(path, ".", ".") \/ Contains(path, "/", "/")

\* the extensions of the images, without the dot
validImageFormats == {"jpg", "jpeg", "png", "gif", "webp", "bmp", "svg"}

\* path.Ext: the file name from its last dot on
Ext(name) ==
    IF LastIndex(name, ".") = 0 THEN <<>> ELSE From(name, LastIndex(name, "."))

\* url.Values.Get: the first value of the key in the query, a string of
\* pairs key=value between ampersands; <<>> for none
Get(query, key) ==
    LET at == {i \in 1..(Len(query) - 1) :
                 /\ query[i] = key
                 /\ query[i + 1] = "="
                 /\ i = 1 \/ query[i - 1] = "&"}
    IN  IF at = {} THEN <<>>
        ELSE With(CHOOSE i \in at : \A j \in at : i <= j, LAMBDA i :
             With(Index(From(query, i + 2), "&"), LAMBDA n :
                 IF n = 0 THEN From(query, i + 2)
                 ELSE SubSeq(query, i + 2, i + n)))

\* hasValidExtension: the file name ends in the extension of an image, or
\* the query names an image with format, type, mime or ext
hasValidExtension(parsedURL) ==
    \/ With(ToLower(Ext(fileName(parsedURL.Path))), LAMBDA fileExt :
          Len(fileExt) = 2 /\ fileExt[1] = "." /\ fileExt[2] \in validImageFormats)
    \/ /\ parsedURL.RawQuery # <<>>
       /\ \/ With(ToLower(Get(parsedURL.RawQuery, "format")), LAMBDA format :
                Len(format) = 1 /\ format[1] \in validImageFormats)
          \/ ToLower(Get(parsedURL.RawQuery, "type")) = <<"image">>
          \/ \E i \in 1..Len(Get(parsedURL.RawQuery, "mime")) :
                ToLower(Get(parsedURL.RawQuery, "mime"))[i] = "image"
          \/ With(ToLower(Get(parsedURL.RawQuery, "ext")), LAMBDA ext :
                Len(ext) = 1 /\ ext[1] \in validImageFormats)

\* the ninth check of validateAvatarURL refusing a URL that names no image
formatReasonStrict(parsedURL) ==
    IF hasValidExtension(parsedURL) THEN "" ELSE "image format"

\* the ninth check of validateAvatarURL: it refuses nothing, a URL that
\* names no image is logged
formatReason(parsedURL) == ""

\* validateAvatarURL: the reason to refuse the URL, "" when it is accepted;
\* lookup is what net.LookupIP answers for the host
validateAvatarURL(avatarURL, lookup) ==
    With(Parse(avatarURL), LAMBDA parsedURL :
    With(ParseIP(Hostname(parsedURL.Host)), LAMBDA ip :
    With(fileName(parsedURL.Path), LAMBDA name :
        IF StringLen(avatarURL) > maxURLLength THEN "too long"
        ELSE IF parsedURL.failed THEN "format"
        ELSE IF parsedURL.Scheme # <<"http">> /\ parsedURL.Scheme # <<"https">>
        THEN "scheme"
        ELSE IF parsedURL.Host = <<>> THEN "host required"
        ELSE IF Contains(parsedURL.Host, "/", "/") THEN "host characters"
        ELSE IF ip # <<>> /\ isPrivateIP(ip) THEN "private"
        ELSE IF ip = <<>> /\ checkLookup(lookup) # "" THEN checkLookup(lookup)
        ELSE IF dangerousPath(parsedURL.Path) THEN "path"
        ELSE IF parsedURL.Fragment # <<>> THEN "fragment"
        ELSE IF formatReason(parsedURL) # "" THEN formatReason(parsedURL)
        ELSE IF name # <<>> /\ StringLen(name) > maxFileNameLength
        THEN "filename too long"
        ELSE IF \E i \in 1..Len(name) : name[i] \in dangerousChars
        THEN "filename character"
        ELSE "")))

\* whether validateAvatarURL logs that the URL names no image: the URL has
\* come to its ninth check; reason is what validateAvatarURL answers
warns(avatarURL, reason) ==
    /\ reason \in {"", "filename too long", "filename character"}
    /\ ~hasValidExtension(Parse(avatarURL))

\* whether validateAvatarURL asks the resolver: the URL has come to its
\* sixth check with a host that is no literal address
NeedsLookup(avatarURL) ==
    With(Parse(avatarURL), LAMBDA parsedURL :
        /\ StringLen(avatarURL) <= maxURLLength
        /\ ~parsedURL.failed
        /\ parsedURL.Scheme \in {<<"http">>, <<"https">>}
        /\ parsedURL.Host # <<>>
        /\ ~Contains(parsedURL.Host, "/", "/")
        /\ ParseIP(Hostname(parsedURL.Host)) = <<>>)

\* ------------------------------------------------------------- UpdateAvatar
\* the parts of the URLs of the requests
SchemeInputs ==
    {<<"http", ":">>, <<"https", ":">>, <<"HTTP", ":">>, <<"ftp", ":">>, <<>>}

HostInputs ==
    {<<"/", "/", "example", ".", "com">>,
     <<"/", "/", "example", ".", "com", ":", "80">>,
     <<"/", "/", "example", ".", "com", ":", "x">>,
     <<"/", "/", "user", "@", "127", ".", "0", ".", "0", ".", "1">>,
     <<"/", "/", "169", ".", "254", ".", "169", ".", "254">>,
     <<"/", "/", "93", ".", "184", ".", "216", ".", "34">>,
     <<"/", "/", "10", ".", "0", ".", "0", ".", "1", ":", "80">>,
     <<"/", "/", "0", ".", "1", ".", "2", ".", "3">>,
     <<"/", "/", "172", ".", "16", ".", "0", ".", "1">>,
     <<"/", "/", "192", ".", "168", ".", "0", ".", "1">>,
     <<"/", "/", "127", ".", "1">>,
     <<"/", "/", "256", ".", "0", ".", "0", ".", "1">>,
     <<"/", "/", "[", ":", ":", "1", "]">>,
     <<"/", "/", "[", "fe80", ":", ":", "1", "]", ":", "80">>,
     <<"/", "/", "[", "2001", ":", "4860", ":", ":", "8888", "]">>,
     <<"/", "/", "[", "fc00", ":", ":", "1", "]">>,
     <<"/", "/", "[", "ff02", ":", ":", "1", "]">>,
     <<"/", "/", "[", ":", ":", "]">>,
     <<"/", "/">>,
     <<>>}

PathInputs ==
    {<<"/", "a", ".", "png">>,
     <<"/", "img">>,
     <<>>,
     <<"/", "dir", "/">>,
     <<"/", ".", ".", "/", ".", ".", "/", "etc", "/", "passwd">>,
     <<"/", "/", "a", ".", "png">>,
     <<"/", "a", "/", "/", "b", ".", "png">>,
     <<"/", "%2e", "%2e", "/", "a", ".", "png">>,
     <<"/", "a", "%2f", "%2f", "b">>,
     <<"/", "a", ".", ".", "png">>,
     <<"/", "a", ".", "PNG">>,
     <<"/", "a", ".", "png", ".", "exe">>,
     <<"/", "a", "*", ".", "png">>,
     <<"/", LongName, ".", "png">>,
     <<"/", LongText>>}

TailInputs ==
    {<<>>, <<"#", "frag">>, <<"#">>, <<"?", "format", "=", "png">>,
     <<"?", "x", "=", ".", ".">>, <<"?", "x", "#", "frag">>}

\* the queries of the URLs of the requests for a path without an extension
QueryInputs ==
    {<<"?", "format", "=", "PNG">>, <<"?", "format", "=", "exe">>,
     <<"?", "s", "=", "2", "&", "type", "=", "image">>,
     <<"?", "mime", "=", "image", "/", "png">>,
     <<"?", "ext", "=", "gif">>,
     <<"?", "x", "=", "format", "=", "png">>}

\* http://example.com/a.png in its four parts
BaseScheme == <<"http", ":">>

BaseHost == <<"/", "/", "example", ".", "com">>

BasePath == <<"/", "a", ".", "png">>

BaseTail == <<>>

\* the URLs of the requests: http://example.com/a.png with one of its parts
\* replaced, and the other URLs the behaviour is told with
AvatarURLInputs ==
    {s \o BaseHost \o BasePath \o BaseTail : s \in SchemeInputs}
    \cup {BaseScheme \o h \o BasePath \o BaseTail : h \in HostInputs}
    \cup {BaseScheme \o BaseHost \o q \o BaseTail : q \in PathInputs}
    \cup {BaseScheme \o BaseHost \o BasePath \o t : t \in TailInputs}
    \cup {BaseScheme \o BaseHost \o <<"/", "img">> \o t : t \in QueryInputs}
    \cup {<<"http", ":", "/", "/", "169", ".", "254", ".", "169", ".", "254",
            "/", "meta">>,
          <<"https", ":", "/", "/", "host", "/", "img", "#", "frag">>,
          <<"https", ":", "/", "/", "host", "/", "img">>,
          <<":", "/", "/", "example", ".", "com">>,
          <<"example", ".", "com", "/", "a", ".", "png">>}

\* the addresses a host can resolve to
Addresses ==
    {<<93, 184, 216, 34>>, <<127, 0, 0, 1>>, <<10, 0, 0, 1>>,
     <<169, 254, 169, 254>>,
     <<224, 0, 0, 1>>, <<0, 0, 0, 0>>, <<0, 1, 2, 3>>,
     IPv6loopback, IPv6unspecified,
     <<32, 1, 72, 96, 0, 0, 0, 0, 0, 0, 0, 0, 0, 0, 136, 136>>,
     v4InV6Prefix \o <<127, 0, 0, 1>>}

\* what net.LookupIP can answer: a failure, or up to MaxIPs addresses
Lookups ==
    {[failed |-> TRUE, ips |-> <<>>]}
    \cup {[failed |-> FALSE, ips |-> ips] :
             ips \in UNION {[1..n -> Addresses] : n \in 0..MaxIPs}}

\* the userID of the requests for an avatar, 0 for the empty string
AvatarUserIDs == {0, 1, 2, 3}

\* UpdateAvatar: the check of the parameters
UpdateAvatar(p) ==
    /\ CanStart(p)
    /\ \E userID \in AvatarUserIDs, avatarURL \in AvatarURLInputs \cup {NoURL} :
          LET r == [Idle EXCEPT !.op = "UpdateAvatar", !.target = userID,
                                !.avatarURL = avatarURL]
          IN  procs' = [procs EXCEPT ![p] =
                  IF userID = 0 \/ avatarURL = NoURL
                  THEN Done(r, ErrInvalidParams)
                  ELSE IF NeedsLookup(avatarURL) THEN [r EXCEPT !.pc = "resolve"]
                  ELSE [r EXCEPT !.pc = "validate"]]
    /\ budget' = budget - 1
    /\ UNCHANGED <<users, cache, consumed, readers>>

\* validateAvatarURL: net.LookupIP answers
AvatarResolve(p) ==
    /\ procs[p].pc = "resolve"
    /\ procs[p].op = "UpdateAvatar"
    /\ \E lookup \in Lookups :
          procs' = [procs EXCEPT ![p] = [@ EXCEPT !.pc = "validate",
                                                  !.lookup = lookup]]
    /\ UNCHANGED <<users, cache, budget, consumed, readers>>

\* UpdateAvatar: the rest of validateAvatarURL and GetUserByID
AvatarValidate(p) ==
    /\ procs[p].pc = "validate"
    /\ procs[p].op = "UpdateAvatar"
    /\ LET r == procs[p]
           reason == validateAvatarURL(r.avatarURL, r.lookup)
       IN  \E repoOk \in BOOLEAN :
             LET e == GetUserByIDResult(users, r.target, repoOk)
                 ret == IF reason # ""
                        THEN [Done(r, ErrInvalidParams) EXCEPT !.reason = reason]
                        ELSE IF e # ErrNil
                        THEN Return(r, e, IF e = ErrInternalError THEN "repo" ELSE "")
                        ELSE [r EXCEPT !.pc = "update"]
             IN  /\ Met(repoOk, ret, "repo")
                 /\ procs' = [procs EXCEPT ![p] =
                       [ret EXCEPT !.warned = warns(r.avatarURL, reason)]]
    /\ UNCHANGED <<users, cache, budget, consumed, readers>>

\* an updateInfo that also sets the account active
AvatarInfoActive(avatarURL) ==
    [Avatar |-> avatarURL, Status |-> UserStatusActive, UserName |-> ""]

\* the updateInfo UpdateAvatar assembles
AvatarInfo(avatarURL) ==
    [Avatar |-> avatarURL]

\* UpdateAvatar: UpdateUser
AvatarWrite(p) ==
    /\ procs[p].pc = "update"
    /\ procs[p].op = "UpdateAvatar"
    /\ \E dbOk \in BOOLEAN :
          LET r == procs[p]
              w == UpdateUser(users, r.target, AvatarInfo(r.avatarURL), dbOk)
          IN  /\ users' = w.users
              /\ procs' = [procs EXCEPT ![p] =
                    IF w.err = ErrNil THEN Done(r, ErrNil)
                    ELSE Return(r, ErrInternalError, "db")]
    /\ UNCHANGED <<cache, budget, consumed, readers>>

\* -------------------------------------------------------------------- time
\* TickStep minutes pass: every stored code ages
Tick ==
    /\ \E k \in Accounts : cache[k].code # "" /\ cache[k].age <= Expiration
    /\ cache' = [k \in Accounts |->
                  IF cache[k].code # "" /\ cache[k].age <= Expiration
                  THEN [cache[k] EXCEPT !.age = @ + TickStep]
                  ELSE cache[k]]
    /\ UNCHANGED <<users, procs, budget, consumed, readers>>

\* ------------------------------------------------------------ specification
\* the accounts the repository can hold when the service starts
SeedBoth ==
    [UserID |-> 1, UserName |-> "forge", Password |-> HashPassword("Abcdef12!"),
     Phone |-> "13800138000", Email |-> "a@b.com",
     PhoneVerified |-> TRUE, EmailVerified |-> TRUE,
     Status |-> UserStatusActive, Avatar |-> NoURL]

SeedNoPassword ==
    [UserID |-> 1, UserName |-> "forge", Password |-> "",
     Phone |-> "13800138000", Email |-> "",
     PhoneVerified |-> TRUE, EmailVerified |-> FALSE,
     Status |-> UserStatusActive, Avatar |-> NoURL]

Seeds == {{}, {SeedBoth}, {SeedNoPassword}}

\* the codes the store can hold for the requests of the accounts: for each
\* identifier none or one that was just stored
SeedCaches ==
    [Accounts -> {NoEntry, [code |-> "123456", age |-> 0, ttl |-> Expiration]}]

Init ==
    /\ users \in Seeds
    /\ cache \in SeedCaches
    /\ procs = [p \in Procs |-> Idle]
    /\ budget = MaxRequests
    /\ consumed = [k \in Accounts |-> {}]
    /\ readers = [k \in Accounts |-> {}]

\* the steps of the request in slot p
Handle(p) ==
    \/ Login(p)
    \/ SendVerificationCode(p)
    \/ SendSet(p)
    \/ SendDispatch(p)
    \/ VerifyCode(p)
    \/ VerifyGet(p)
    \/ VerifyDel(p)
    \/ Register(p)
    \/ RegisterCreate(p)
    \/ ResetPassword(p)
    \/ ResetUpdate(p)
    \/ UpdateAccount(p)
    \/ UpdateAvail(p)
    \/ UpdateWrite(p)
    \/ UnbindAccount(p)
    \/ UnbindWrite(p)
    \/ GetUserByID(p)
    \/ Release(p)

\* every handler, the requests served one after the other
Next ==
    \/ Handle(1)
    \/ Tick

Spec == Init /\ [][Next]_vars

\* requests that run at the same time, one in each slot, in a service that
\* has sent codes before
InitConcurrent ==
    /\ users \in Seeds
    /\ cache \in SeedCaches
    /\ procs = [p \in Procs |-> Idle]
    /\ budget = NProcs
    /\ consumed = [k \in Accounts |-> {}]
    /\ readers = [k \in Accounts |-> {}]

\* concurrent requests that present a code
NextVerify ==
    \E p \in Procs :
        \/ VerifyCode(p)
        \/ VerifyGet(p)
        \/ VerifyDel(p)
        \/ Register(p)
        \/ RegisterCreate(p)
        \/ ResetPassword(p)
        \/ ResetUpdate(p)
        \/ UpdateAccount(p)
        \/ UpdateAvail(p)
        \/ UpdateWrite(p)

SpecVerify == InitConcurrent /\ [][NextVerify]_vars

\* concurrent requests that create accounts and bind contacts
NextBind ==
    \E p \in Procs :
        \/ Register(p)
        \/ RegisterCreate(p)
        \/ UpdateAccount(p)
        \/ UpdateAvail(p)
        \/ UpdateWrite(p)
        \/ VerifyGet(p)
        \/ VerifyDel(p)

SpecBind == InitConcurrent /\ [][NextBind]_vars

\* requests that register an account and requests that use accounts
NextSession ==
    \E p \in Procs :
        \/ Register(p)
        \/ RegisterCreate(p)
        \/ VerifyGet(p)
        \/ VerifyDel(p)
        \/ Login(p)
        \/ GetUserByID(p)

SpecSession == InitConcurrent /\ [][NextSession]_vars

\* concurrent requests that bind and unbind the contacts of accounts
NextContacts ==
    \E p \in Procs :
        \/ UnbindAccount(p)
        \/ UnbindWrite(p)
        \/ UpdateAccount(p)
        \/ UpdateAvail(p)
        \/ UpdateWrite(p)
        \/ VerifyGet(p)
        \/ VerifyDel(p)

SpecContacts == InitConcurrent /\ [][NextContacts]_vars

\* concurrent requests for codes
NextCodes ==
    \/ \E p \in Procs :
        \/ SendVerificationCode(p)
        \/ SendSet(p)
        \/ SendDispatch(p)
        \/ VerifyCode(p)
        \/ VerifyGet(p)
        \/ VerifyDel(p)
    \/ Tick

SpecCodes == InitConcurrent /\ [][NextCodes]_vars

\* one request for an avatar; the accounts are an active one and a disabled
\* one
SeedDisabled ==
    [UserID |-> 2, UserName |-> "gone", Password |-> HashPassword("Abcdef12!"),
     Phone |-> "", Email |-> "c@d.com",
     PhoneVerified |-> FALSE, EmailVerified |-> TRUE,
     Status |-> UserStatusDisabled, Avatar |-> NoURL]

InitAvatar ==
    /\ users = {SeedBoth, SeedDisabled}
    /\ cache = [k \in Accounts |-> NoEntry]
    /\ procs = [p \in Procs |-> Idle]
    /\ budget = 1
    /\ consumed = [k \in Accounts |-> {}]
    /\ readers = [k \in Accounts |-> {}]

NextAvatar ==
    \/ UpdateAvatar(1)
    \/ AvatarResolve(1)
    \/ AvatarValidate(1)
    \/ AvatarWrite(1)

SpecAvatar == InitAvatar /\ [][NextAvatar]_vars

\* a request for a code in slot 1 and a request that presents a code in slot
\* 2, in a service whose store is empty: every code was sent in the run
InitIssue ==
    /\ users \in Seeds
    /\ cache = [k \in Accounts |-> NoEntry]
    /\ procs = [p \in Procs |-> Idle]
    /\ budget = NProcs
    /\ consumed = [k \in Accounts |-> {}]
    /\ readers = [k \in Accounts |-> {}]

NextIssue ==
    \/ SendVerificationCode(1)
    \/ SendSet(1)
    \/ SendDispatch(1)
    \/ Register(2)
    \/ RegisterCreate(2)
    \/ ResetPassword(2)
    \/ ResetUpdate(2)
    \/ UpdateAccount(2)
    \/ UpdateAvail(2)
    \/ UpdateWrite(2)
    \/ VerifyGet(2)
    \/ VerifyDel(2)

SpecIssue == InitIssue /\ [][NextIssue]_vars

\* a request that resets a password in slot 1 and a request that logs in in
\* slot 2
NextReset ==
    \/ ResetPassword(1)
    \/ VerifyGet(1)
    \/ VerifyDel(1)
    \/ ResetUpdate(1)
    \/ Login(2)

SpecReset == InitConcurrent /\ [][NextReset]_vars

\* requests that log in and requests that read an account, in a service
\* whose account is active or has been disabled
SeedsStatus == {{SeedBoth}, {[SeedBoth EXCEPT !.Status = UserStatusDisabled]}}

InitStatus ==
    /\ users \in SeedsStatus
    /\ cache = [k \in Accounts |-> NoEntry]
    /\ procs = [p \in Procs |-> Idle]
    /\ budget = NProcs
    /\ consumed = [k \in Accounts |-> {}]
    /\ readers = [k \in Accounts |-> {}]

NextStatus ==
    \E p \in Procs :
        \/ Login(p)
        \/ GetUserByID(p)

SpecStatus == InitStatus /\ [][NextStatus]_vars

\* ================================================================== claims
\* the request in slot p has taken the step from position a to position b
Stepped(p, a, b) == procs[p].pc = a /\ procs'[p].pc = b

\* the request in slot p is one of handler op that has returned
Returned(p, op) == procs[p].op = op /\ procs[p].pc = "done"

\* the number of contact methods of an account
Contacts(u) ==
    (IF u.Phone # "" THEN 1 ELSE 0) + (IF u.Email # "" THEN 1 ELSE 0)

\* ---------------------------------------------------------------------- C1
\* C1: once VerifyCode has accepted a code for an identifier and no
\* SendVerificationCode has stored a code for the identifier since, a
\* VerifyCode that presents the same code for the identifier does not match
\* it again: it returns ErrVerificationCodeIncorrect (ErrInternalError when
\* the store cannot be read).
C1_NoReplay ==
    [][\A p \in Procs :
         (/\ procs[p].pc = "get"
          /\ procs[p].account \in Accounts
          /\ procs[p].code \in consumed[procs[p].account]
          /\ procs'[p].pc # "get")
         => /\ procs'[p].pc = "done"
            /\ procs'[p].err \in {ErrVerificationCodeIncorrect, ErrInternalError}]_vars

\* ---------------------------------------------------------------------- C2
\* C2: of the requests that present the same correct code for one
\* identifier at the same time, at most one has its VerifyCode match the
\* stored code.
C2_OneMatch ==
    \A k \in Accounts : Cardinality(readers[k]) <= 1

\* ---------------------------------------------------------------------- C3
\* C3: every persisted account has a phone or an email.
C3_HasContact ==
    \A u \in users : u.Phone # "" \/ u.Email # ""

\* ---------------------------------------------------------------------- C4
\* the caller of the UnbindAccount request that slot p has just taken
UnbindCaller(p) ==
    IF procs'[p].pc = "done"
    THEN GetUserByUserID(users, procs'[p].target)
    ELSE procs'[p].caller

\* the contact of account u that a request of account type t names
Bound(u, t) == IF t = AccountTypePhone THEN u.Phone ELSE u.Email

C5_UniqueContacts ==
    \A u \in users, v \in users :
        u # v => /\ u.Phone = "" \/ u.Phone # v.Phone
                 /\ u.Email = "" \/ u.Email # v.Email

\* C5 witness: of two Register requests for one identifier that both passed
\* the lookup, one created the account and the repository refused the other
C5_Witness ==
    \E p \in Procs, q \in Procs :
        /\ Returned(p, "Register") /\ procs[p].err = ErrNil
        /\ Returned(q, "Register") /\ procs[q].err = ErrDuplicateKey
        /\ procs[p].account = procs[q].account

\* ---------------------------------------------------------------------- C6
\* the account a Login request for (account, accountType) looks up
LoginAccount(r) == findUserByAccount(users, r.account, r.accountType, TRUE).user

\* C6: a Login with an identifier and a password, whose lookup the
\* repository answered, returns ErrCredentialsIncorrect and no token when
\* the identifier belongs to no account and when the password is not the one
\* the stored hash was made of.
C6_Indistinguishable ==
    \A p \in Procs :
        (/\ Returned(p, "Login")
         /\ procs[p].account # ""
         /\ procs[p].accountType \in {AccountTypePhone, AccountTypeEmail}
         /\ procs[p].password # ""
         /\ procs[p].fault # "repo"
         /\ \/ LoginAccount(procs[p]).UserID = 0
            \/ LoginAccount(procs[p]).Password # HashPassword(procs[p].password))
        => /\ procs[p].err = ErrCredentialsIncorrect
           /\ procs[p].token = 0

\* ---------------------------------------------------------------------- C7
\* C7: when SendVerificationCode has returned an error, the code it
\* generated is not the active code of its identifier.
C7_NoCodeLeft ==
    \A p \in Procs :
        (/\ Returned(p, "SendVerificationCode")
         /\ procs[p].err # ErrNil
         /\ procs[p].code # ""
         /\ procs[p].account \in Accounts)
        => GetRedis(cache, procs[p].account) # procs[p].code

\* ---------------------------------------------------------------------- C8
\* C8: the store holds one entry per identifier; a SendVerificationCode that
\* stores a code replaces the entry of its identifier, whatever it held, by
\* the new code with the full expiration and touches no other entry; and a
\* VerifyCode that reads the store matches exactly the code of the entry it
\* finds, any other code returning ErrVerificationCodeIncorrect.
C8_LatestOnly ==
    [][\A p \in Procs :
         /\ (/\ procs[p].pc = "set"
             /\ procs'[p].pc # "set"
             /\ procs'[p].code # "")
            => /\ cache'[procs[p].account] =
                     [code |-> procs'[p].code, age |-> 0, ttl |-> Expiration]
               /\ \A k \in Accounts \ {procs[p].account} : cache'[k] = cache[k]
         /\ (/\ procs[p].pc = "get"
             /\ procs'[p].pc # "get"
             /\ procs[p].account \in Accounts
             /\ procs[p].code # ""
             /\ ~(procs'[p].pc = "done" /\ procs'[p].fault = "cache"))
            => IF procs[p].code = GetRedis(cache, procs[p].account)
               THEN procs'[p].pc = "del"
               ELSE /\ procs'[p].pc = "done"
                    /\ procs'[p].err = ErrVerificationCodeIncorrect]_vars

\* C8 witness: a SendVerificationCode has stored the code that is active for
\* an identifier, and a VerifyCode for the identifier with the other code
\* has returned ErrVerificationCodeIncorrect
C8_Witness ==
    \E p \in Procs, q \in Procs :
        /\ Returned(p, "SendVerificationCode") /\ procs[p].err = ErrNil
        /\ procs[p].account \in Accounts
        /\ GetRedis(cache, procs[p].account) = procs[p].code
        /\ Returned(q, "VerifyCode")
        /\ procs[q].account = procs[p].account
        /\ procs[q].code \in Codes \ {procs[p].code}
        /\ procs[q].err = ErrVerificationCodeIncorrect

\* ---------------------------------------------------------------------- C9
\* C9: a VerifyCode that reads an entry older than the expiration of ten
\* minutes does not match it, whatever code it presents: it returns
\* ErrVerificationCodeIncorrect (ErrInternalError when the store cannot be
\* read).
C9_Expired ==
    [][\A p \in Procs :
         (/\ procs[p].pc = "get"
          /\ procs'[p].pc # "get"
          /\ procs[p].account \in Accounts
          /\ procs[p].code # ""
          /\ cache[procs[p].account].code # ""
          /\ cache[procs[p].account].age > Expiration)
         => /\ procs'[p].pc = "done"
            /\ \/ procs'[p].err = ErrVerificationCodeIncorrect
               \/ procs'[p].err = ErrInternalError /\ procs'[p].fault = "cache"]_vars

\* C9 witness: a VerifyCode that presented the very code of an entry older
\* than the expiration has returned ErrVerificationCodeIncorrect
C9_Witness ==
    \E p \in Procs :
        /\ Returned(p, "VerifyCode")
        /\ procs[p].err = ErrVerificationCodeIncorrect
        /\ procs[p].account \in Accounts
        /\ cache[procs[p].account].code = procs[p].code
        /\ cache[procs[p].account].age > Expiration

\* --------------------------------------------------------------------- C10
\* C10: a step changes the password of a persisted account, or persists a
\* new account, only as the last step of a Register, ResetPassword or
\* UpdateAccount that was given a password, and what it stores is
\* HashPassword of that password and not the password.
C10_OnlyDigests ==
    [][\A u \in users' :
         \/ \E v \in users : v.UserID = u.UserID /\ v.Password = u.Password
         \/ \E p \in Procs :
              /\ procs[p].op \in {"Register", "ResetPassword", "UpdateAccount"}
              /\ procs[p].pc \in {"create", "update"}
              /\ procs'[p].pc = "done"
              /\ procs'[p].err = ErrNil
              /\ procs[p].password # ""
              /\ u.Password = HashPassword(procs[p].password)
              /\ u.Password # procs[p].password]_vars

\* C10 witness: a Register has persisted an account with a password
C10_Witness ==
    \E p \in Procs :
        /\ Returned(p, "Register")
        /\ procs[p].err = ErrNil
        /\ GetUserByUserID(users, procs[p].target).Password
              \in {HashPassword(pl) : pl \in StrongPasswords}

\* --------------------------------------------------------------------- C11
\* the account that the Register which returned in slot p has created is
\* persisted as Register created it
AsRegistered(p) ==
    /\ Returned(p, "Register")
    /\ procs[p].err = ErrNil
    /\ LET u == GetUserByUserID(users, procs[p].target)
       IN  /\ u.UserID # 0
           /\ Bound(u, procs[p].accountType) = procs[p].account
           /\ u.Password = RegisterPassword(procs[p].password)

\* C11: a Login that starts after a Register has returned nil, with the
\* identifier, account type and password of that Register, while the account
\* is persisted as created, returns nil with that account and a token for
\* it, unless the repository lookup or the token issuer fails.
C11_RegisterThenLogin ==
    [][\A p \in Procs, q \in Procs :
         (/\ AsRegistered(p)
          /\ procs[q].pc = "idle"
          /\ procs'[q].op = "Login"
          /\ procs'[q].account = procs[p].account
          /\ procs'[q].accountType = procs[p].accountType
          /\ procs'[q].password = procs[p].password
          /\ procs'[q].fault \notin {"repo", "jwt"})
         => /\ procs'[q].pc = "done"
            /\ procs'[q].err = ErrNil
            /\ procs'[q].target = procs[p].target
            /\ procs'[q].token = GenerateToken(procs[p].target)
            /\ procs'[q].token # 0]_vars

\* C11 witness: a Login with the parameters of a returned Register has
\* returned nil with a token
C11_Witness ==
    \E p \in Procs, q \in Procs :
        /\ AsRegistered(p)
        /\ Returned(q, "Login")
        /\ procs[q].account = procs[p].account
        /\ procs[q].accountType = procs[p].accountType
        /\ procs[q].password = procs[p].password
        /\ procs[q].err = ErrNil
        /\ procs[q].token # 0

\* --------------------------------------------------------------------- C12
\* C12: the step in which a Register returns nil adds exactly one account,
\* whose contact of the given account type is the identifier with its
\* verified flag true and whose other contact is empty with its verified
\* flag false; and the code the Register presented is no longer the active
\* code of the identifier.
C12_RegisterCreates ==
    [][\A p \in Procs :
         (/\ procs[p].op = "Register"
          /\ Stepped(p, "create", "done")
          /\ procs'[p].err = ErrNil)
         => /\ \E u \in users' \ users :
                 /\ users' = users \cup {u}
                 /\ u.UserID = procs'[p].target
                 /\ IF procs[p].accountType = AccountTypePhone
                    THEN /\ u.Phone = procs[p].account /\ u.PhoneVerified
                         /\ u.Email = "" /\ ~u.EmailVerified
                    ELSE /\ u.Email = procs[p].account /\ u.EmailVerified
                         /\ u.Phone = "" /\ ~u.PhoneVerified
            /\ GetRedis(cache, procs[p].account) \notin consumed[procs[p].account]]_vars

C14_EmptyInputs ==
    [][\A p \in Procs :
         (/\ procs'[p].op = "Register"
          /\ procs[p].pc # "done"
          /\ procs'[p].pc = "done"
          /\ procs'[p].fault \in {"", "del"}
          /\ \/ procs'[p].account = ""
             \/ procs'[p].accountType = ""
             \/ /\ procs[p].pc \in {"get", "del", "create"}
                /\ procs[p].userName = "" \/ procs[p].password = ""
             \/ procs[p].pc = "get" /\ procs[p].code = "")
         => /\ procs'[p].err = ErrInvalidParams
            /\ users' = users]_vars

\* --------------------------------------------------------------------- C15
\* C15: a Register with an identifier, an account type and a password, for
\* an identifier that the repository finds under that account type, returns
\* ErrUserAlreadyExists at once: it creates no account and leaves the code
\* store as it is.
C15_AlreadyExists ==
    [][\A p \in Procs :
         (/\ procs[p].pc = "idle"
          /\ procs'[p].op = "Register"
          /\ findUserByAccount(users, procs'[p].account,
                               procs'[p].accountType, TRUE).err = ErrNil
          /\ procs'[p].err # ErrInvalidParams
          /\ procs'[p].fault # "repo")
         => /\ procs'[p].pc = "done"
            /\ procs'[p].err = ErrUserAlreadyExists
            /\ users' = users
            /\ cache' = cache
            /\ consumed' = consumed]_vars

\* C15 witness: a Register has returned ErrUserAlreadyExists for an
\* identifier whose code is still stored
C15_Witness ==
    \E p \in Procs :
        /\ Returned(p, "Register")
        /\ procs[p].err = ErrUserAlreadyExists
        /\ procs[p].account \in Accounts
        /\ GetRedis(cache, procs[p].account) # ""
        /\ consumed[procs[p].account] = {}

\* --------------------------------------------------------------------- C16
\* C16: a Register whose code was accepted and whose password is not one the
\* password policy admits returns the error of the policy, and the step in
\* which it returns creates no account.
C16_WeakPassword ==
    [][\A p \in Procs :
         (/\ procs[p].op = "Register"
          /\ procs[p].pc = "create"
          /\ procs'[p].pc # "create"
          /\ procs[p].password \notin StrongPasswords)
         => /\ procs'[p].pc = "done"
            /\ procs'[p].err \in
                  {ErrPasswordTooShort, ErrPasswordTooLong, ErrPasswordTooWeak}
            /\ Len(procs[p].password) < MinPasswordLen
                  => procs'[p].err = ErrPasswordTooShort
            /\ users' = users]_vars

\* C16 witness: a Register has returned an error of the password policy
\* after its code was accepted
C16_Witness ==
    \E p \in Procs :
        /\ Returned(p, "Register")
        /\ procs[p].err = ErrPasswordTooShort
        /\ procs[p].account \in Accounts
        /\ consumed[procs[p].account] # {}

\* --------------------------------------------------------------------- C17
\* the repository finds an account for the identifier of request r
Exists(r) == findUserByAccount(users, r.account, r.accountType, TRUE).err = ErrNil

\* C17: a SendVerificationCode for a phone or an email whose lookup the
\* repository answers goes on to store a code, for purpose register, exactly
\* when the identifier belongs to no account, and returns
\* ErrAccountAlreadyInUse otherwise; for purpose reset_password, exactly
\* when the identifier belongs to an account, and returns ErrUserNotFound
\* otherwise.  A SendVerificationCode that returns from its checks leaves
\* the code store as it is, and one that stores a code for one of the two
\* purposes does so with the account absent, respectively present.
C17_SendPrecondition ==
    [][\A p \in Procs :
         /\ (/\ procs[p].pc = "idle"
             /\ procs'[p].op = "SendVerificationCode"
             /\ procs'[p].account # ""
             /\ procs'[p].accountType \in {AccountTypePhone, AccountTypeEmail}
             /\ procs'[p].fault # "repo")
            => /\ procs'[p].purpose = PurposeRegister =>
                    IF Exists(procs'[p])
                    THEN /\ procs'[p].pc = "done"
                         /\ procs'[p].err = ErrAccountAlreadyInUse
                    ELSE procs'[p].pc = "set"
               /\ procs'[p].purpose = PurposeResetPassword =>
                    IF Exists(procs'[p])
                    THEN procs'[p].pc = "set"
                    ELSE /\ procs'[p].pc = "done"
                         /\ procs'[p].err = ErrUserNotFound
         /\ (/\ procs[p].pc = "idle"
             /\ procs'[p].op = "SendVerificationCode"
             /\ procs'[p].pc = "done")
            => cache' = cache
         /\ (/\ procs[p].op = "SendVerificationCode"
             /\ procs[p].pc = "set"
             /\ procs'[p].pc # "set"
             /\ cache' # cache)
            => /\ procs[p].purpose = PurposeRegister => ~Exists(procs[p])
               /\ procs[p].purpose = PurposeResetPassword => Exists(procs[p])]_vars

\* C17 witness: a SendVerificationCode has returned ErrAccountAlreadyInUse
\* for purpose register, or ErrUserNotFound for purpose reset_password, and
\* the code stored for its identifier is still active
C17_Witness ==
    \E p \in Procs :
        /\ Returned(p, "SendVerificationCode")
        /\ procs[p].account \in Accounts
        /\ GetRedis(cache, procs[p].account) # ""
        /\ \/ /\ procs[p].purpose = PurposeRegister
              /\ procs[p].err = ErrAccountAlreadyInUse
           \/ /\ procs[p].purpose = PurposeResetPassword
              /\ procs[p].err = ErrUserNotFound

\* --------------------------------------------------------------------- C18
\* the caller of the SendVerificationCode request that slot p has just taken
SendCaller(p) ==
    IF procs'[p].pc = "done"
    THEN GetUserByUserID(users, procs'[p].target)
    ELSE procs'[p].caller

\* C18: a SendVerificationCode with purpose change_account for a phone or
\* an email, whose lookup the repository answers, returns
\* ErrPermissionDenied when the request context holds no caller, returns
\* ErrAccountAlreadyInUse exactly when the identifier belongs to an account
\* other than the caller, and goes on to store a code when the identifier
\* belongs to the caller or to no account.
C18_ChangeAccount ==
    [][\A p \in Procs :
         (/\ procs[p].pc = "idle"
          /\ procs'[p].op = "SendVerificationCode"
          /\ procs'[p].purpose = PurposeChangeAccount
          /\ procs'[p].account # ""
          /\ procs'[p].accountType \in {AccountTypePhone, AccountTypeEmail}
          /\ procs'[p].fault # "repo")
         => LET caller == SendCaller(p)
                owner == findUserByAccount(users, procs'[p].account,
                                           procs'[p].accountType, TRUE).user
            IN  IF caller.UserID = 0
                THEN /\ procs'[p].pc = "done"
                     /\ procs'[p].err = ErrPermissionDenied
                ELSE IF owner.UserID # 0 /\ owner.UserID # caller.UserID
                THEN /\ procs'[p].pc = "done"
                     /\ procs'[p].err = ErrAccountAlreadyInUse
                ELSE procs'[p].pc = "set"]_vars

\* C18 witness: a SendVerificationCode with purpose change_account has
\* returned ErrAccountAlreadyInUse to a caller for the identifier of another
\* account
C18_Witness ==
    \E p \in Procs :
        /\ Returned(p, "SendVerificationCode")
        /\ procs[p].purpose = PurposeChangeAccount
        /\ procs[p].err = ErrAccountAlreadyInUse
        /\ procs[p].target # 0
        /\ findUserByAccount(users, procs[p].account, procs[p].accountType,
                             TRUE).user.UserID \notin {0, procs[p].target}

\* --------------------------------------------------------------------- C19
\* the code GetRedis returns for the identifier of request r
Stored(r) == IF r.account \in Accounts THEN GetRedis(cache, r.account) ELSE ""

\* C19: a VerifyCode returns ErrInvalidParams when its identifier or its
\* code is empty; otherwise, when it can read the store, it returns
\* ErrVerificationCodeIncorrect when no code is stored for the identifier or
\* the stored code is another one; and the step in which a VerifyCode
\* returns an error leaves the code store as it is.
C19_VerifyErrors ==
    [][\A p \in Procs :
         (/\ procs[p].op = "VerifyCode"
          /\ procs[p].pc = "get"
          /\ procs'[p].pc # "get")
         => /\ (procs[p].account = "" \/ procs[p].code = "")
                  => /\ procs'[p].pc = "done"
                     /\ procs'[p].err = ErrInvalidParams
            /\ (/\ procs[p].account # ""
                /\ procs[p].code # ""
                /\ procs'[p].fault # "cache"
                /\ Stored(procs[p]) # procs[p].code)
                  => /\ procs'[p].pc = "done"
                     /\ procs'[p].err = ErrVerificationCodeIncorrect
            /\ procs'[p].pc = "done"
                  => /\ procs'[p].err # ErrNil
                     /\ cache' = cache]_vars

\* C19 witness: a VerifyCode has returned ErrVerificationCodeIncorrect for a
\* code other than the stored one, which is still active
C19_Witness ==
    \E p \in Procs :
        /\ Returned(p, "VerifyCode")
        /\ procs[p].err = ErrVerificationCodeIncorrect
        /\ procs[p].code # ""
        /\ Stored(procs[p]) \notin {"", procs[p].code}

\* --------------------------------------------------------------------- C20
\* C20: a VerifyCode whose code matched the stored one returns nil whether
\* its delete succeeds or fails; after a failed delete the store is as it
\* was.
C20_DeleteFailure ==
    [][\A p \in Procs :
         (/\ procs[p].op = "VerifyCode"
          /\ procs[p].pc = "del"
          /\ procs'[p].pc # "del")
         => /\ procs'[p].pc = "done"
            /\ procs'[p].err = ErrNil
            /\ procs'[p].fault \in {"", "del"}
            /\ procs'[p].fault = "del" => cache' = cache
            /\ procs'[p].fault = "" => cache' = DelRedis(cache, procs[p].account)]_vars

\* C20 witness: a VerifyCode has returned nil after its delete failed, and
\* the code it matched is still stored
C20_Witness ==
    \E p \in Procs :
        /\ Returned(p, "VerifyCode")
        /\ procs[p].err = ErrNil
        /\ procs[p].fault = "del"
        /\ procs[p].account \in Accounts
        /\ cache[procs[p].account].code = procs[p].code

\* --------------------------------------------------------------------- C21
\* C21: the step in which a ResetPassword returns nil replaces the password
\* of the account it had found by the hash of the new password and changes
\* no other field of that account and no other account.
C21_ResetFrame ==
    [][\A p \in Procs :
         (/\ procs[p].op = "ResetPassword"
          /\ Stepped(p, "update", "done")
          /\ procs'[p].err = ErrNil)
         => LET before == GetUserByUserID(users, procs[p].target)
            IN  /\ before.UserID # 0
                /\ users' = (users \ {before}) \cup
                      {[before EXCEPT !.Password = HashPassword(procs[p].password)]}]_vars

\* C21 witness: a ResetPassword has returned nil and the account has the
\* new password, its contacts and flags as they were seeded
C21_Witness ==
    \E p \in Procs :
        /\ Returned(p, "ResetPassword")
        /\ procs[p].err = ErrNil
        /\ LET u == GetUserByUserID(users, procs[p].target)
           IN  /\ u.Password = HashPassword("Zyxwvu98?")
               /\ u = [SeedBoth EXCEPT !.Password = HashPassword("Zyxwvu98?")]

\* --------------------------------------------------------------------- C22
\* C22: ResetPassword, given an identifier, an account type and two
\* passwords that differ, returns ErrPasswordMismatch; a ResetPassword that
\* returns ErrPasswordMismatch has changed neither the code store nor an
\* account; and a ResetPassword changes an account only in its last step,
\* after a code was accepted for its identifier.
C22_Mismatch ==
    [][/\ \A t \in Targets, newPassword \in PasswordInputs,
            confirmPassword \in PasswordInputs, repoOk \in BOOLEAN :
            (/\ t[1] # "" /\ t[2] # ""
             /\ newPassword # "" /\ confirmPassword # ""
             /\ newPassword # confirmPassword)
            => ResetPrecondition(users, t[1], t[2], newPassword,
                                 confirmPassword, repoOk) = ErrPasswordMismatch
       /\ \A p \in Procs :
            /\ (/\ procs'[p].op = "ResetPassword"
                /\ procs[p].pc # "done"
                /\ procs'[p].pc = "done"
                /\ procs'[p].err = ErrPasswordMismatch)
               => /\ procs[p].pc = "idle"
                  /\ cache' = cache
                  /\ consumed' = consumed
                  /\ users' = users
            /\ (/\ procs[p].op = "ResetPassword"
                /\ procs'[p] # procs[p]
                /\ users' # users)
               => /\ procs[p].pc = "update"
                  /\ procs[p].account \in Accounts
                  /\ consumed[procs[p].account] # {}]_vars

\* C22 witness: a ResetPassword has returned ErrPasswordMismatch for an
\* identifier whose code is still stored and unused
C22_Witness ==
    \E p \in Procs :
        /\ Returned(p, "ResetPassword")
        /\ procs[p].err = ErrPasswordMismatch
        /\ procs[p].account \in Accounts
        /\ GetRedis(cache, procs[p].account) # ""
        /\ consumed[procs[p].account] = {}

\* --------------------------------------------------------------------- C23
\* C23: UpdateAccount, given an identifier, an account type and a code by a
\* caller, returns ErrPasswordRequired when the caller has no password and
\* the request has none, and passes its checks without a password when the
\* caller has one; an UpdateAccount that returns ErrPasswordRequired does so
\* in its first step and has changed neither the code store nor an account.
C23_PasswordRequired ==
    [][/\ \A t \in Targets, code \in Codes, caller \in Callers(users) :
            (t[1] # "" /\ t[2] # "" /\ caller.UserID # 0)
            => /\ caller.Password = ""
                  => UpdatePrecondition(t[1], t[2], code, "", caller)
                        = ErrPasswordRequired
               /\ caller.Password # ""
                  => UpdatePrecondition(t[1], t[2], code, "", caller) = ErrNil
               /\ \A password \in PasswordInputs \ {""} :
                     UpdatePrecondition(t[1], t[2], code, password, caller) = ErrNil
       /\ \A p \in Procs :
            (/\ procs'[p].op = "UpdateAccount"
             /\ procs[p].pc # "done"
             /\ procs'[p].pc = "done"
             /\ procs'[p].err = ErrPasswordRequired)
            => /\ procs[p].pc = "idle"
               /\ GetUserByUserID(users, procs'[p].target).Password = ""
               /\ cache' = cache
               /\ consumed' = consumed
               /\ users' = users]_vars

\* C23 witness: an UpdateAccount of a caller without password has returned
\* ErrPasswordRequired for an identifier whose code is still stored and
\* unused
C23_Witness ==
    \E p \in Procs :
        /\ Returned(p, "UpdateAccount")
        /\ procs[p].err = ErrPasswordRequired
        /\ procs[p].target # 0
        /\ GetUserByUserID(users, procs[p].target).Password = ""
        /\ procs[p].account \in Accounts
        /\ GetRedis(cache, procs[p].account) # ""
        /\ consumed[procs[p].account] = {}

\* --------------------------------------------------------------------- C24
\* the account that holds the identifier of request r under its account type
Owner(r) == findUserByAccount(users, r.account, r.accountType, TRUE).user

\* the identifier of the UpdateAccount in slot p belongs to another account
\* than its caller
TakenByOther(p) ==
    /\ Owner(procs[p]).UserID # 0
    /\ Owner(procs[p]).UserID # procs[p].caller.UserID

C25_UpdateFrame ==
    [][\A p \in Procs :
         (/\ procs[p].op = "UpdateAccount" \/ procs'[p].op = "UpdateAccount"
          /\ procs'[p] # procs[p])
         => IF Stepped(p, "update", "done") /\ procs'[p].err = ErrNil
            THEN LET before == GetUserByUserID(users, procs[p].caller.UserID)
                     t == procs[p].accountType
                     after ==
                       [before EXCEPT
                          !.Phone = IF t = AccountTypePhone
                                    THEN procs[p].account ELSE @,
                          !.PhoneVerified = IF t = AccountTypePhone THEN TRUE ELSE @,
                          !.Email = IF t = AccountTypeEmail
                                    THEN procs[p].account ELSE @,
                          !.EmailVerified = IF t = AccountTypeEmail THEN TRUE ELSE @,
                          !.Password = IF procs[p].password # ""
                                       THEN HashPassword(procs[p].password)
                                       ELSE @]
                 IN  /\ before.UserID # 0
                     /\ t \in {AccountTypePhone, AccountTypeEmail}
                     /\ users' = (users \ {before}) \cup {after}
            ELSE users' = users]_vars

\* C25 witness: an UpdateAccount has returned nil, the account has the new
\* contact verified and still has its other contact; and an UpdateAccount
\* whose code was accepted has returned an error of the password policy
C25_Witness ==
    /\ \E p \in Procs :
          /\ Returned(p, "UpdateAccount")
          /\ procs[p].err = ErrNil
          /\ LET u == GetUserByUserID(users, procs[p].target)
             IN  /\ Bound(u, procs[p].accountType) = procs[p].account
                 /\ Contacts(u) = 2
    /\ \E p \in Procs :
          /\ Returned(p, "UpdateAccount")
          /\ procs[p].err = ErrPasswordTooShort

\* --------------------------------------------------------------------- C26
\* C26: an UnbindAccount of a caller for a phone or an email returns
\* ErrInvalidParams at once, changing nothing, when the caller has no
\* contact of that type or another value than the requested one; and the
\* step in which an UnbindAccount returns nil empties that contact of the
\* account, sets its verified flag to false, and leaves the other contact,
\* its flag, the password and every other account as they are.
C26_UnbindFrame ==
    [][\A p \in Procs :
         /\ (/\ procs[p].pc = "idle"
             /\ procs'[p].op = "UnbindAccount"
             /\ procs'[p].account # ""
             /\ procs'[p].accountType \in {AccountTypePhone, AccountTypeEmail}
             /\ UnbindCaller(p).UserID # 0
             /\ Bound(UnbindCaller(p), procs'[p].accountType) # procs'[p].account)
            => /\ procs'[p].pc = "done"
               /\ procs'[p].err = ErrInvalidParams
               /\ users' = users
               /\ cache' = cache
         /\ (/\ procs[p].op = "UnbindAccount"
             /\ procs'[p].pc = "done"
             /\ procs[p].pc # "done"
             /\ procs'[p].err = ErrNil)
            => \E u \in users, v \in users' :
                 /\ u.UserID = procs'[p].target
                 /\ v.UserID = u.UserID
                 /\ users' \ {v} = users \ {u}
                 /\ Bound(v, procs[p].accountType) = ""
                 /\ v.Password = u.Password
                 /\ v.UserName = u.UserName /\ v.Status = u.Status
                 /\ v.Avatar = u.Avatar
                 /\ IF procs[p].accountType = AccountTypePhone
                    THEN /\ ~v.PhoneVerified
                         /\ v.Email = u.Email
                         /\ v.EmailVerified = u.EmailVerified
                    ELSE /\ ~v.EmailVerified
                         /\ v.Phone = u.Phone
                         /\ v.PhoneVerified = u.PhoneVerified]_vars

\* C26 witness: an UnbindAccount has returned ErrInvalidParams to a caller
\* whose contact of the requested type has another value
C26_Witness ==
    \E p \in Procs :
        /\ Returned(p, "UnbindAccount")
        /\ procs[p].err = ErrInvalidParams
        /\ procs[p].target # 0
        /\ procs[p].accountType \in {AccountTypePhone, AccountTypeEmail}
        /\ Bound(GetUserByUserID(users, procs[p].target), procs[p].accountType)
              \notin {"", procs[p].account}

\* --------------------------------------------------------------------- C27
\* C27: the step of a Login, whatever it returns, leaves every account and
\* the verification code store as they are.
C27_LoginFrame ==
    [][\A p \in Procs :
         (procs[p].pc = "idle" /\ procs'[p].op = "Login")
         => /\ procs'[p].pc = "done"
            /\ users' = users
            /\ cache' = cache]_vars

\* C27 witness: a Login has returned nil for an account of which the store
\* holds a code
C27_Witness ==
    \E p \in Procs :
        /\ Returned(p, "Login")
        /\ procs[p].err = ErrNil
        /\ procs[p].account \in Accounts
        /\ cache[procs[p].account].code # ""

\* --------------------------------------------------------------------- C28
\* the UpdateAvatar in slot p has gone through validateAvatarURL
Validated(p) ==
    /\ procs[p].op = "UpdateAvatar"
    /\ procs[p].pc \in {"update", "done"}
    /\ procs[p].target # 0
    /\ procs[p].avatarURL # NoURL

\* validateAvatarURL has refused the URL of the request in slot p
Rejected(p) ==
    /\ procs[p].pc = "done"
    /\ procs[p].err = ErrInvalidParams
    /\ procs[p].reason # ""

\* the address is loopback (127.0.0.0/8, ::1), link-local (169.254.0.0/16,
\* fe80::/10), private (10.0.0.0/8, 172.16.0.0/12, 192.168.0.0/16, fc00::/7),
\* multicast (224.0.0.0/4, ff00::/8), unspecified (0.0.0.0, ::) or inside
\* 0.0.0.0/8; told by the first 16 bits of the address, an IPv4 address
\* being one of 4 bytes or one of 16 bytes ::ffff:a.b.c.d
Refused(ip) ==
    LET mapped == /\ Len(ip) = 16
                  /\ \A i \in 1..10 : ip[i] = 0
                  /\ ip[11] = 255 /\ ip[12] = 255
        head == IF Len(ip) = 4 THEN ip[1] * 256 + ip[2]
                ELSE IF mapped THEN ip[13] * 256 + ip[14]
                ELSE ip[1] * 256 + ip[2]
    IN  IF Len(ip) = 4 \/ mapped
        THEN \/ head \in 0..255
             \/ head \in 2560..2815
             \/ head \in 32512..32767
             \/ head = 43518
             \/ head \in 44048..44063
             \/ head = 49320
             \/ head \in 57344..61439
        ELSE \/ \A i \in 1..16 : ip[i] = 0
             \/ (\A i \in 1..15 : ip[i] = 0) /\ ip[16] = 1
             \/ head \in 65152..65215
             \/ head \in 64512..65023
             \/ head \in 65280..65535

\* C28: when the host of the URL of an UpdateAvatar has resolved to
\* addresses of which one, at whatever position, is loopback, link-local,
\* private, multicast, unspecified or inside 0.0.0.0/8, validateAvatarURL
\* has refused the URL, and so it has when the host is the literal of such
\* an address; a URL it has accepted after a resolution has resolved only to
\* addresses outside these ranges.
C28_EveryAddress ==
    \A p \in Procs :
        Validated(p) =>
            LET url == procs[p].avatarURL
                ips == procs[p].lookup.ips
                literal == ParseIP(Hostname(Parse(url).Host))
            IN  /\ (\E i \in 1..Len(ips) : Refused(ips[i])) => Rejected(p)
                /\ procs[p].reason = "" => \A i \in 1..Len(ips) : ~Refused(ips[i])
                /\ ~Rejected(p)
                   => ~(/\ ~Parse(url).failed
                        /\ literal # <<>>
                        /\ Refused(literal))

\* C28 witness: validateAvatarURL has refused a URL whose host resolved to
\* two addresses, the first outside the ranges and the second inside
C28_Witness ==
    \E p \in Procs :
        /\ Validated(p)
        /\ Rejected(p)
        /\ NeedsLookup(procs[p].avatarURL)
        /\ Len(procs[p].lookup.ips) = 2
        /\ ~Refused(procs[p].lookup.ips[1])
        /\ Refused(procs[p].lookup.ips[2])
        /\ procs[p].reason = "resolves to private"

\* --------------------------------------------------------------------- C29
\* C29: when validateAvatarURL has asked the resolver for the host of the
\* URL, a name and no literal, and the resolution has failed or has given no
\* address, it has refused the URL: the UpdateAvatar has returned
\* ErrInvalidParams and no account has the URL as its avatar.
C29_ResolutionFailure ==
    \A p \in Procs :
        (/\ Validated(p)
         /\ NeedsLookup(procs[p].avatarURL)
         /\ procs[p].lookup.failed \/ procs[p].lookup.ips = <<>>)
        => /\ Rejected(p)
           /\ procs[p].reason \in {"failed to resolve", "no addresses"}
           /\ \A u \in users : u.Avatar # procs[p].avatarURL

\* C29 witness: validateAvatarURL has refused http://example.com/a.png after
\* the resolution of example.com failed
C29_Witness ==
    \E p \in Procs :
        /\ Validated(p)
        /\ Rejected(p)
        /\ procs[p].avatarURL = BaseScheme \o BaseHost \o BasePath
        /\ procs[p].lookup.failed
        /\ procs[p].reason = "failed to resolve"

\* --------------------------------------------------------------------- C30
\* the schemes http and https, in either case
HTTPSchemes == {<<"http", ":">>, <<"https", ":">>, <<"HTTP", ":">>}

\* the literal of a public address, and the hosts of the URLs that are
\* public: the name example.com when it has resolved to addresses that are
\* all outside the refused ranges, or that literal
PublicLiteral == <<"/", "/", "93", ".", "184", ".", "216", ".", "34">>

PublicHost(p, h) ==
    \/ h = PublicLiteral
    \/ /\ h = BaseHost
       /\ ~procs[p].lookup.failed
       /\ procs[p].lookup.ips # <<>>
       /\ \A i \in 1..Len(procs[p].lookup.ips) : ~Refused(procs[p].lookup.ips[i])

\* the path holds two dots or two slashes in a row, written out or escaped
Traversal(q) ==
    \E i \in 1..(Len(q) - 1) :
        LET c(j) == IF q[j] = "%2e" THEN "." ELSE IF q[j] = "%2f" THEN "/" ELSE q[j]
        IN  (c(i) = "." /\ c(i + 1) = ".") \/ (c(i) = "/" /\ c(i + 1) = "/")

\* the URL of the validated request in slot p has been refused, or else it
\* has neither a scheme other than http and https, nor such a path, nor a
\* fragment that is not empty
RejectsAsStated(p) ==
    LET url == procs[p].avatarURL
    IN  \/ Rejected(p)
        \/ /\ \A s \in SchemeInputs \ HTTPSchemes :
                 url # s \o BaseHost \o BasePath
            /\ \A q \in PathInputs :
                 url = BaseScheme \o BaseHost \o q => ~Traversal(q)
            /\ \A t \in TailInputs :
                 (\E i \in 1..(Len(t) - 1) : t[i] = "#")
                 => url # BaseScheme \o BaseHost \o BasePath \o t

Formatless ==
    {BaseScheme \o BaseHost \o q :
        q \in {<<"/", "img">>, <<"/", "dir", "/">>, <<>>,
               <<"/", "a", ".", "png", ".", "exe">>}}
    \cup {BaseScheme \o BaseHost \o <<"/", "img">> \o t :
            t \in {<<"?", "format", "=", "exe">>,
                   <<"?", "x", "=", "format", "=", "png">>}}

Formatted ==
    {BaseScheme \o BaseHost \o q :
        q \in {<<"/", "a", ".", "png">>, <<"/", "a", ".", "PNG">>}}
    \cup {BaseScheme \o BaseHost \o <<"/", "img">> \o t :
            t \in {<<"?", "format", "=", "PNG">>,
                   <<"?", "s", "=", "2", "&", "type", "=", "image">>,
                   <<"?", "mime", "=", "image", "/", "png">>,
                   <<"?", "ext", "=", "gif">>}}

\* C31: validateAvatarURL has accepted the URL of an UpdateAvatar that
\* passes its other checks (http, a host resolved to public addresses only,
\* a short path without two dots or slashes in a row, no fragment) both when
\* the URL names an image, by extension or by query parameter, and when it
\* names none; only in the second case it has logged a warning, and it has
\* never refused a URL for naming no image.
C31_FormatNotRequired ==
    \A p \in Procs :
        Validated(p) =>
            /\ procs[p].reason # "image format"
            /\ (/\ procs[p].avatarURL \in Formatless \cup Formatted
                /\ PublicHost(p, BaseHost))
               => /\ procs[p].reason = ""
                  /\ procs[p].err # ErrInvalidParams
                  /\ procs[p].warned = (procs[p].avatarURL \in Formatless)

\* C31 witness: http://example.com/img, which names no image, has been
\* accepted with a warning and written as the avatar of account 1
C31_Witness ==
    \E p \in Procs :
        /\ Validated(p)
        /\ procs[p].avatarURL = BaseScheme \o BaseHost \o <<"/", "img">>
        /\ PublicHost(p, BaseHost)
        /\ procs[p].warned
        /\ procs[p].pc = "done"
        /\ procs[p].err = ErrNil
        /\ \E u \in users : u.UserID = procs[p].target /\ u.Avatar = procs[p].avatarURL

\* --------------------------------------------------------------------- C32
\* C32: the code of a SendVerificationCode that has returned success, while
\* it is the unexpired entry of its identifier, is not taken out of the
\* store by the step of another SendVerificationCode for the identifier
\* whose dispatch fails: the rollback of that other call leaves it in the
\* store. Violated: the rollback deletes the entry of the identifier,
\* whichever call stored it.
C32_RollbackKeepsOthers ==
    [][\A p \in Procs, q \in Procs :
         (/\ p # q
          /\ Returned(p, "SendVerificationCode")
          /\ procs[p].err = ErrNil
          /\ procs[p].account \in Accounts
          /\ procs[p].code # procs[q].code
          /\ GetRedis(cache, procs[p].account) = procs[p].code
          /\ procs[q].op = "SendVerificationCode"
          /\ procs[q].account = procs[p].account
          /\ Stepped(q, "dispatch", "done")
          /\ procs'[q].err # ErrNil)
         => GetRedis(cache', procs[p].account) = procs[p].code]_vars

\* --------------------------------------------------------------------- C33
\* C33: a Login, Register, ResetPassword, SendVerificationCode,
\* UpdateAccount or UnbindAccount for an account type that is neither phone
\* nor email, that has returned without the failure of a collaborator and
\* not for its other parameters, its caller or its code, has returned
\* ErrUnsupportedAccountType. Violated: SendVerificationCode under
\* register, reset_password and change_account, and UpdateAccount after its
\* code matched, turn the ErrUnsupportedAccountType of findUserByAccount
\* into ErrInternalError.
C33_Unsupported ==
    \A p \in Procs :
        (/\ procs[p].pc = "done"
         /\ procs[p].op \in {"Login", "Register", "ResetPassword",
                             "SendVerificationCode", "UpdateAccount",
                             "UnbindAccount"}
         /\ procs[p].account # ""
         /\ procs[p].accountType \notin {AccountTypePhone, AccountTypeEmail, ""}
         /\ procs[p].fault = ""
         /\ procs[p].err \notin {ErrInvalidParams, ErrPasswordMismatch,
                                 ErrPermissionDenied, ErrPasswordRequired,
                                 ErrVerificationCodeIncorrect})
        => procs[p].err = ErrUnsupportedAccountType

\* --------------------------------------------------------------------- C34
\* the purposes that ask for a check of the account
KnownPurposes == {PurposeRegister, PurposeResetPassword, PurposeChangeAccount}

\* C34: a SendVerificationCode for a phone or an email with a purpose other
\* than register, reset_password and change_account goes on from its checks
\* to store a code whether or not the identifier belongs to an account and
\* with no caller; it stores the code it generated under the identifier and
\* goes on to dispatch it, and when the dispatch succeeds it returns no
\* error and leaves the code in the store.
C34_NoCheck ==
    [][\A p \in Procs :
         /\ (/\ procs[p].pc = "idle"
             /\ procs'[p].op = "SendVerificationCode"
             /\ procs'[p].purpose \notin KnownPurposes
             /\ procs'[p].account # ""
             /\ procs'[p].accountType \in {AccountTypePhone, AccountTypeEmail})
            => /\ procs'[p].pc = "set"
               /\ procs'[p].caller = NoUser
         /\ (/\ procs[p].op = "SendVerificationCode"
             /\ procs[p].purpose \notin KnownPurposes
             /\ procs[p].accountType \in {AccountTypePhone, AccountTypeEmail}
             /\ procs[p].pc = "set"
             /\ procs'[p].pc # "set"
             /\ procs'[p].fault # "cache")
            => /\ procs'[p].pc = "dispatch"
               /\ procs'[p].code \in Codes
               /\ cache'[procs[p].account] =
                     [code |-> procs'[p].code, age |-> 0, ttl |-> Expiration]
         /\ (/\ procs[p].op = "SendVerificationCode"
             /\ procs[p].purpose \notin KnownPurposes
             /\ procs[p].pc = "dispatch"
             /\ procs'[p].pc = "done"
             /\ procs'[p].fault = "")
            => /\ procs'[p].err = ErrNil
               /\ cache' = cache]_vars

\* C34 witness: two SendVerificationCode with purpose login have returned
\* no error, one for an identifier that belongs to an account and one for an
\* identifier that belongs to none, and the code of each is active
C34_Witness ==
    \E p \in Procs, q \in Procs :
        /\ Returned(p, "SendVerificationCode") /\ Returned(q, "SendVerificationCode")
        /\ procs[p].purpose = "login" /\ procs[q].purpose = "login"
        /\ procs[p].err = ErrNil /\ procs[q].err = ErrNil
        /\ procs[p].accountType \in {AccountTypePhone, AccountTypeEmail}
        /\ procs[q].accountType \in {AccountTypePhone, AccountTypeEmail}
        /\ Exists(procs[p])
        /\ ~Exists(procs[q])
        /\ procs[p].target = 0 /\ procs[q].target = 0
        /\ GetRedis(cache, procs[p].account) = procs[p].code
        /\ GetRedis(cache, procs[q].account) = procs[q].code

\* --------------------------------------------------------------------- C35
\* the handlers that call VerifyCode on the way
Presenters == {"Register", "ResetPassword", "UpdateAccount"}

\* C35: when the VerifyCode of a Register, ResetPassword or UpdateAccount
\* has read the store, it has matched exactly when the code it presents is
\* the active code of its identifier, whatever the handler and the account
\* type of the request; and it has matched the active code that a returned
\* SendVerificationCode sent for the identifier, whatever the purpose and
\* the account type of that request.
C35_IdentifierAndCode ==
    [][\A q \in Procs :
         (/\ procs[q].op \in Presenters
          /\ procs[q].pc = "get"
          /\ procs'[q].pc # "get"
          /\ procs[q].account \in Accounts
          /\ procs[q].code # ""
          /\ procs'[q].fault # "cache")
         => /\ procs'[q].pc = "del"
                <=> procs[q].code = GetRedis(cache, procs[q].account)
            /\ procs'[q].pc # "del"
                => /\ procs'[q].pc = "done"
                   /\ procs'[q].err = ErrVerificationCodeIncorrect
            /\ \A p \in Procs :
                 (/\ Returned(p, "SendVerificationCode")
                  /\ procs[p].err = ErrNil
                  /\ procs[p].purpose \in PurposeInputs
                  /\ procs[p].account = procs[q].account
                  /\ procs[p].code = procs[q].code
                  /\ GetRedis(cache, procs[q].account) = procs[p].code)
                 => procs'[q].pc = "del"]_vars

\* C35 witness: an UpdateAccount that binds a@b.com as a phone has returned
\* no error after it presented the code that a SendVerificationCode with
\* purpose register sent to a@b.com as an email
C35_Witness ==
    \E p \in Procs, q \in Procs :
        /\ Returned(p, "SendVerificationCode")
        /\ procs[p].err = ErrNil
        /\ procs[p].purpose = PurposeRegister
        /\ procs[p].accountType = AccountTypeEmail
        /\ Returned(q, "UpdateAccount")
        /\ procs[q].err = ErrNil
        /\ procs[q].account = procs[p].account
        /\ procs[q].accountType = AccountTypePhone
        /\ procs[p].code \in consumed[procs[p].account]
        /\ \E u \in users : u.UserID = procs[q].target /\ u.Phone = procs[q].account

\* --------------------------------------------------------------------- C36
\* the Register, ResetPassword or UpdateAccount in slot q is past its
\* VerifyCode
AfterCode(q) ==
    /\ procs[q].op \in Presenters
    /\ procs[q].pc \in {"create", "update", "avail"}

C37_VerifiedIffBound ==
    \A u \in users :
        /\ u.PhoneVerified <=> u.Phone # ""
        /\ u.EmailVerified <=> u.Email # ""

\* C37 witness: an UnbindAccount has returned no error and its account has
\* an empty, unverified email and a verified phone
C37_Witness ==
    \E p \in Procs, u \in users :
        /\ Returned(p, "UnbindAccount")
        /\ procs[p].err = ErrNil
        /\ procs[p].accountType = AccountTypeEmail
        /\ u.UserID = procs[p].target
        /\ u.Email = "" /\ ~u.EmailVerified
        /\ u.Phone # "" /\ u.PhoneVerified

\* --------------------------------------------------------------------- C38
\* the ResetPassword in slot p has returned nil and its account holds the
\* password it wrote
AsReset(p) ==
    /\ Returned(p, "ResetPassword")
    /\ procs[p].err = ErrNil
    /\ GetUserByUserID(users, procs[p].target).Password =
          PasswordToStore(procs[p].password)

\* C38: the step in which a ResetPassword returns nil writes the hash of its
\* new password to the account it found; a Login that starts after it, for
\* the identifier and account type of that ResetPassword, returns nil with
\* that account and a token when it presents the new password, and
\* ErrCredentialsIncorrect without a token when it presents another
\* password, the previous one among them, unless the repository lookup, the
\* hasher or the token issuer fails.
C38_ResetThenLogin ==
    [][\A p \in Procs, q \in Procs :
         /\ (/\ procs[p].op = "ResetPassword"
             /\ procs[p].pc = "update"
             /\ procs'[p].pc = "done"
             /\ procs'[p].err = ErrNil)
            => AsReset(p)'
         /\ (/\ AsReset(p)
             /\ procs[q].pc = "idle"
             /\ procs'[q].op = "Login"
             /\ procs'[q].account = procs[p].account
             /\ procs'[q].accountType = procs[p].accountType
             /\ procs'[q].password # ""
             /\ procs'[q].fault = "")
            => /\ procs'[q].pc = "done"
               /\ IF procs'[q].password = procs[p].password
                  THEN /\ procs'[q].err = ErrNil
                       /\ procs'[q].target = procs[p].target
                       /\ procs'[q].token = GenerateToken(procs[p].target)
                       /\ procs'[q].token # 0
                  ELSE /\ procs'[q].err = ErrCredentialsIncorrect
                       /\ procs'[q].token = 0]_vars

\* C38 witness: after a ResetPassword that replaced the password Abcdef12!
\* of account 1 by Zyxwvu98? a Login with Abcdef12! has returned
\* ErrCredentialsIncorrect
C38_Witness ==
    \E p \in Procs, q \in Procs :
        /\ AsReset(p)
        /\ SeedBoth.Password = HashPassword("Abcdef12!")
        /\ procs[p].target = SeedBoth.UserID
        /\ procs[p].password = "Zyxwvu98?"
        /\ Returned(q, "Login")
        /\ procs[q].account = procs[p].account
        /\ procs[q].accountType = procs[p].accountType
        /\ procs[q].password = "Abcdef12!"
        /\ procs[q].err = ErrCredentialsIncorrect
        /\ procs[q].target = procs[p].target

\* --------------------------------------------------------------------- C39
\* C39: a step of an UpdateAvatar changes the accounts only as its last
\* step, after validateAvatarURL accepted the URL and with the account of
\* the userID present and active, and then it replaces the avatar of that
\* account by the URL and nothing else; an UpdateAvatar whose URL
\* validateAvatarURL refuses returns ErrInvalidParams, and one with an
\* accepted URL returns ErrUserNotFound when no account has the userID and
\* ErrPermissionDenied when the account is not active, unless the
\* repository fails; when it returns an error no account has changed.
C39_AvatarOnly ==
    [][/\ users' # users
          => \E p \in Procs :
               LET r == procs[p]
                   u == GetUserByUserID(users, r.target)
               IN  /\ r.op = "UpdateAvatar"
                   /\ r.pc = "update"
                   /\ procs'[p].pc = "done"
                   /\ procs'[p].err = ErrNil
                   /\ validateAvatarURL(r.avatarURL, r.lookup) = ""
                   /\ u.UserID # 0
                   /\ u.Status = UserStatusActive
                   /\ users' = (users \ {u}) \cup {[u EXCEPT !.Avatar = r.avatarURL]}
       /\ \A p \in Procs :
         LET r == procs[p]
             u == GetUserByUserID(users, r.target)
         IN  /\ (/\ r.op = "UpdateAvatar"
                 /\ r.pc = "validate"
                 /\ procs'[p].pc # "validate"
                 /\ procs'[p].fault # "repo")
                => IF validateAvatarURL(r.avatarURL, r.lookup) # ""
                   THEN /\ procs'[p].pc = "done"
                        /\ procs'[p].err = ErrInvalidParams
                   ELSE IF u.UserID = 0
                   THEN /\ procs'[p].pc = "done"
                        /\ procs'[p].err = ErrUserNotFound
                   ELSE IF u.Status # UserStatusActive
                   THEN /\ procs'[p].pc = "done"
                        /\ procs'[p].err = ErrPermissionDenied
                   ELSE procs'[p].pc = "update"
             /\ (/\ procs'[p].op = "UpdateAvatar"
                 /\ procs'[p].pc = "done"
                 /\ procs'[p].err # ErrNil)
                => users' = users]_vars

\* C39 witness: an UpdateAvatar for the disabled account 2 with the URL
\* http://93.184.216.34/a.png has returned ErrPermissionDenied and the
\* account is as it was
C39_Witness ==
    \E p \in Procs :
        /\ Returned(p, "UpdateAvatar")
        /\ procs[p].target = SeedDisabled.UserID
        /\ procs[p].avatarURL = BaseScheme \o PublicLiteral \o BasePath
        /\ validateAvatarURL(procs[p].avatarURL, procs[p].lookup) = ""
        /\ procs[p].err = ErrPermissionDenied
        /\ SeedDisabled \in users

\* --------------------------------------------------------------------- C40
\* C40: a Login for the identifier of an account that is not active, with
\* the password of the account, returns nil with the account and a token for
\* it, unless the repository lookup or the token issuer fails; a GetUserByID
\* for the userID of that account returns ErrPermissionDenied, unless the
\* repository fails.
C40_LoginIgnoresStatus ==
    [][\A q \in Procs :
         /\ (/\ procs[q].pc = "idle"
             /\ procs'[q].op = "Login"
             /\ LoginAccount(procs'[q]).UserID # 0
             /\ LoginAccount(procs'[q]).Status # UserStatusActive
             /\ LoginAccount(procs'[q]).Password = HashPassword(procs'[q].password)
             /\ procs'[q].fault = "")
            => /\ procs'[q].pc = "done"
               /\ procs'[q].err = ErrNil
               /\ procs'[q].target = LoginAccount(procs'[q]).UserID
               /\ procs'[q].token = GenerateToken(procs'[q].target)
               /\ procs'[q].token # 0
         /\ (/\ procs[q].pc = "idle"
             /\ procs'[q].op = "GetUserByID"
             /\ GetUserByUserID(users, procs'[q].target).UserID # 0
             /\ GetUserByUserID(users, procs'[q].target).Status # UserStatusActive
             /\ procs'[q].fault = "")
            => /\ procs'[q].pc = "done"
               /\ procs'[q].err = ErrPermissionDenied]_vars

\* C40 witness: the account is disabled, a Login with its email and its
\* password has returned nil with a token, and a GetUserByID for its userID
\* has returned ErrPermissionDenied
C40_Witness ==
    \E p \in Procs, q \in Procs, u \in users :
        /\ u.Status = UserStatusDisabled
        /\ Returned(p, "Login")
        /\ procs[p].account = u.Email
        /\ procs[p].accountType = AccountTypeEmail
        /\ u.Password = HashPassword(procs[p].password)
        /\ procs[p].err = ErrNil
        /\ procs[p].token = GenerateToken(u.UserID)
        /\ procs[p].token # 0
        /\ Returned(q, "GetUserByID")
        /\ procs[q].target = u.UserID
        /\ procs[q].err = ErrPermissionDenied

====
